---- MODULE Spec2Model ----
(***************************************************************************)
(* Model of the agent-manager orchestrator spine:                          *)
(*   - transitionState (src/src/orchestrator/stateMachine.ts), the pure    *)
(*     (state, intent, now) -> (newState, sideEffects) reducer;            *)
(*   - IntentDispatcher (src/src/orchestrator/dispatcher.ts);              *)
(*   - Orchestrator.handleIntent (src/unnamed/part_002), the async facade. *)
(*                                                                         *)
(* Conventions.  Timestamps are natural numbers, 0 meaning "not set".      *)
(* randomUUID() is a counter of fresh ids.  buildDeterministicId is        *)
(* injective on the hashed content, so a deterministic id is modelled by   *)
(* the content itself.  A plan draft is identified by a number p; its      *)
(* content hash (the plan id) is p.                                        *)
(***************************************************************************)
EXTENDS Naturals, Integers, Sequences, FiniteSets, TLC

\* ------------------------------------------------------------------ bounds
MaxSteps     == 4      \* intents handled in one behaviour of Spec
MaxProjects  == 2      \* create_project intents in one behaviour of Spec
MaxExecSteps == 4      \* intents handled after the restart in SpecExec
MaxUuid      == 4      \* tasks created in one behaviour (randomUUID calls)
NumPlans     == 3      \* distinct plan drafts the planner may return
MaxCalls     == 3      \* handleIntent calls in one behaviour of SpecOrch
MaxPlanSteps == 4      \* intents handled in one behaviour of SpecPlan
MaxClarifications == 1 \* clarification records of a PlanningInput
MaxQuestions == 2      \* entries of the questions array of a planner response
MaxRestarts == 1       \* Orchestrators constructed on the store after the first
MaxRetries == 2        \* retry_tasks intents accepted in one behaviour of SpecRecover

\* --------------------------------------------------------------- utilities
Range(s) == { s[i] : i \in 1..Len(s) }

Includes(s, x) == \E i \in 1..Len(s) : s[i] = x

MapSeq(s, F(_)) == [ i \in 1..Len(s) |-> F(s[i]) ]

CountSeq(s, T(_)) == Cardinality({ i \in 1..Len(s) : T(s[i]) })

\* the first element of s satisfying T; callers guard with an existence test
FindSeq(s, T(_)) == s[CHOOSE i \in 1..Len(s) : T(s[i]) /\ \A j \in 1..(i-1) : ~T(s[j])]

\* ------------------------------------------------------------- plan drafts
\* number of ExecutionTaskDefs of plan draft p
PlanTaskCount(p) == IF p = 1 THEN 1 ELSE IF p = 2 THEN 2 ELSE 0

PlanIds == 1..NumPlans

\* the plan drafts of SpecExec: those that have tasks to execute
ExecPlanIds == { p \in PlanIds : PlanTaskCount(p) > 0 }

\* ---------------------------------------------------------------- settings
DEFAULT_SETTINGS == [requireExecutionApproval |-> FALSE, requireRetryApproval |-> TRUE]

\* a merge in which the defaults win over the payload
MergeSettings_DefaultsLast(partial) ==
  [ k \in DOMAIN DEFAULT_SETTINGS |-> DEFAULT_SETTINGS[k] ]

\* { ...DEFAULT_SETTINGS, ...(settings ?? {}) } for a partial settings object
MergeSettings(partial) ==
  [ k \in DOMAIN DEFAULT_SETTINGS |->
      IF k \in DOMAIN partial THEN partial[k] ELSE DEFAULT_SETTINGS[k] ]

NoExecution == [defined |-> FALSE, results |-> <<>>,
                summary |-> [total |-> 0, completed |-> 0, failed |-> 0, inProgress |-> 0],
                failures |-> <<>>]

NoContext == 0

createProjectState(now, settings) ==
  [ phase          |-> "idle",
    version        |-> 0,
    updatedAt      |-> now,
    context        |-> NoContext,
    plans          |-> <<>>,
    currentPlanId  |-> 0,
    pendingTasks   |-> <<>>,
    approvals      |-> <<>>,
    clarifications |-> <<>>,
    discussion     |-> <<>>,
    execution      |-> NoExecution,
    settings       |-> MergeSettings(settings),
    history        |-> <<>> ]

\* applyTransition without the TransitionRecord
applyTransition_NoRecord(state, intentType, from, to, now, overrides) ==
  [ k \in DOMAIN state |->
      CASE k = "phase"     -> to
        [] k = "version"   -> state.version + 1
        [] k = "updatedAt" -> now
        [] OTHER           -> IF k \in DOMAIN overrides THEN overrides[k] ELSE state[k] ]

\* overrides is a record whose fields replace those of state
applyTransition(state, intentType, from, to, now, overrides) ==
  [ k \in DOMAIN state |->
      CASE k = "phase"     -> to
        [] k = "version"   -> state.version + 1
        [] k = "updatedAt" -> now
        [] k = "history"   -> Append(state.history,
                                [timestamp |-> now, intentType |-> intentType,
                                 from |-> from, to |-> to])
        [] OTHER           -> IF k \in DOMAIN overrides THEN overrides[k] ELSE state[k] ]

buildPlanningTask(id, stage, now) ==
  [ id |-> id, type |-> "planning", status |-> "pending", stage |-> stage,
    createdAt |-> now, dispatchedAt |-> 0, planId |-> 0, definitionId |-> 0 ]

\* buildExecutionTasks taking the task definition id for the plan id
buildExecutionTasks_DefinitionAsPlan(plan, now, uuid) ==
  [ i \in 1..Len(plan.tasks) |->
      [ id |-> uuid + i, type |-> "execution", status |-> "pending", stage |-> "none",
        createdAt |-> now, dispatchedAt |-> 0, planId |-> plan.tasks[i],
        definitionId |-> plan.tasks[i] ] ]

buildExecutionTasks(plan, now, uuid) ==
  [ i \in 1..Len(plan.tasks) |->
      [ id |-> uuid + i, type |-> "execution", status |-> "pending", stage |-> "none",
        createdAt |-> now, dispatchedAt |-> 0, planId |-> plan.id,
        definitionId |-> plan.tasks[i] ] ]

\* a selection that does not look at dispatchedAt
ShouldDispatch_Again(task, taskIds) ==
  Includes(taskIds, task.id) /\ task.status = "pending"

ShouldDispatch(task, taskIds) ==
  Includes(taskIds, task.id) /\ task.status = "pending" /\ task.dispatchedAt = 0

markTasksForDispatch(tasks, taskIds, now) ==
  LET upd(task) == IF ShouldDispatch(task, taskIds)
                   THEN [task EXCEPT !.dispatchedAt = now] ELSE task
      updated == MapSeq(tasks, upd)
  IN [ updatedTasks |-> updated,
       tasks |-> SelectSeq(updated,
                   LAMBDA t : \E i \in 1..Len(tasks) :
                                 tasks[i].id = t.id /\ ShouldDispatch(tasks[i], taskIds)) ]

\* an effect list that stops after the first task
DispatchEffects_FirstOnly(tasks) ==
  [ i \in 1..(IF Len(tasks) > 0 THEN 1 ELSE 0) |->
      [type |-> "dispatch_agent_task", task |-> tasks[i]] ]

DispatchEffects(tasks) ==
  [ i \in 1..Len(tasks) |-> [type |-> "dispatch_agent_task", task |-> tasks[i]] ]

appendDiscussion(discussion, now, type, message) ==
  Append(discussion, [type |-> type, message |-> message, timestamp |-> now])


\* ------------------------------------------------------- execution state
IsExecution(task) == task.type = "execution"

\* buildExecutionSummary counting failures by the result status "failure"
buildExecutionSummary_ResultStatus(tasks) ==
  [ total      |-> Len(tasks),
    completed  |-> CountSeq(tasks, LAMBDA t : t.status = "completed"),
    failed     |-> CountSeq(tasks, LAMBDA t : t.status = "failure"),
    inProgress |-> CountSeq(tasks, LAMBDA t : t.status = "pending" /\ t.dispatchedAt # 0) ]

buildExecutionSummary(tasks) ==
  [ total      |-> Len(tasks),
    completed  |-> CountSeq(tasks, LAMBDA t : t.status = "completed"),
    failed     |-> CountSeq(tasks, LAMBDA t : t.status = "failed"),
    inProgress |-> CountSeq(tasks, LAMBDA t : t.status = "pending" /\ t.dispatchedAt # 0) ]

\* list of the task ids of the failed execution tasks (the reason is not modelled)
buildExecutionFailures(tasks) ==
  MapSeq(SelectSeq(tasks, LAMBDA t : IsExecution(t) /\ t.status = "failed"),
         LAMBDA t : t.id)

buildExecutionState(tasks, existing) ==
  LET executionTasks == SelectSeq(tasks, IsExecution)
      taskIds == { t.id : t \in Range(executionTasks) }
      keep    == (DOMAIN existing.results) \cap taskIds
  IN [ defined  |-> TRUE,
       results  |-> [ id \in keep |-> existing.results[id] ],
       summary  |-> buildExecutionSummary(executionTasks),
       failures |-> buildExecutionFailures(executionTasks) ]

updateExecutionState(execution, tasks, taskId, status) ==
  [ defined  |-> TRUE,
    results  |-> [ id \in (DOMAIN execution.results) \cup {taskId} |->
                     IF id = taskId THEN status ELSE execution.results[id] ],
    summary  |-> buildExecutionSummary(SelectSeq(tasks, IsExecution)),
    failures |-> buildExecutionFailures(tasks) ]

pruneExecutionResults(execution, taskIds) ==
  IF ~execution.defined THEN execution
  ELSE [execution EXCEPT !.results =
          [ id \in (DOMAIN execution.results) \ Range(taskIds) |-> execution.results[id] ]]

getFailedTaskIds(tasks) ==
  MapSeq(SelectSeq(tasks, LAMBDA t : IsExecution(t) /\ t.status = "failed"),
         LAMBDA t : t.id)

\* ---------------------------------------------------------------- approvals
\* id of an approval that nobody holds
NoApprovalId == [kind |-> "none", planId |-> 0, taskIds |-> <<>>, at |-> 0]

\* `approval-${plan.id}`
createPlanApproval(plan, now) ==
  [ id |-> [kind |-> "plan", planId |-> plan.id, taskIds |-> <<>>, at |-> 0],
    type |-> "plan", requestedAt |-> now, planId |-> plan.id, taskIds |-> <<>> ]

\* id = hash of {type, planId, taskIds, at}
createExecutionApproval(type, planId, taskIds, now) ==
  [ id |-> [kind |-> type, planId |-> planId, taskIds |-> taskIds, at |-> now],
    type |-> type, requestedAt |-> now, planId |-> planId, taskIds |-> taskIds ]

IsExecutionApproval(approval) ==
  approval.type = "execution_start" \/ approval.type = "execution_retry"

\* a gate that looks for execution_start approvals only
hasExecutionApprovalPending_StartOnly(approvals) ==
  \E i \in 1..Len(approvals) : approvals[i].type = "execution_start"

hasExecutionApprovalPending(approvals) ==
  \E i \in 1..Len(approvals) : IsExecutionApproval(approvals[i])

\* ------------------------------------------------------------ clarifications
\* a record that is born answered
createClarificationRecord_Answered(questions, now) ==
  [ id |-> [questions |-> questions, createdAt |-> now],
    questions |-> questions, answers |-> <<>>, status |-> "answered",
    createdAt |-> now, resolvedAt |-> 0 ]

createClarificationRecord(questions, now) ==
  [ id |-> [questions |-> questions, createdAt |-> now],
    questions |-> questions, answers |-> <<>>, status |-> "open",
    createdAt |-> now, resolvedAt |-> 0 ]

NoClarificationId == [questions |-> <<>>, createdAt |-> 0]

\* updateClarificationAnswers that answers every record once the id is found
updateClarificationAnswers_All(clarifications, clarificationId, answers, now) ==
  [ clarifications |->
      MapSeq(clarifications,
             LAMBDA r : [r EXCEPT !.answers = answers, !.status = "answered",
                                  !.resolvedAt = now]),
    found |-> \E i \in 1..Len(clarifications) : clarifications[i].id = clarificationId ]

updateClarificationAnswers(clarifications, clarificationId, answers, now) ==
  [ clarifications |->
      MapSeq(clarifications,
             LAMBDA r : IF r.id # clarificationId THEN r
                        ELSE [r EXCEPT !.answers = answers, !.status = "answered",
                                       !.resolvedAt = now]),
    found |-> \E i \in 1..Len(clarifications) : clarifications[i].id = clarificationId ]

\* ------------------------------------------------------- transition results
Result(newState, sideEffects, uuid) ==
  [newState |-> newState, sideEffects |-> sideEffects, uuid |-> uuid]

rejectTransition(state, intent, message, now, uuid) ==
  Result(applyTransition(state, intent.type, state.phase, state.phase, now,
           [discussion |-> appendDiscussion(state.discussion, now, "system", message)]),
         <<>>, uuid)

\* a failure that records the message but stays in the current phase
failTransition_KeepPhase(state, intent, message, now, uuid) ==
  Result(applyTransition(state, intent.type, state.phase, state.phase, now,
           [discussion |-> appendDiscussion(state.discussion, now, "system", message)]),
         <<>>, uuid)

failTransition(state, intent, message, now, uuid) ==
  Result(applyTransition(state, intent.type, state.phase, "error", now,
           [discussion |-> appendDiscussion(state.discussion, now, "system", message)]),
         <<>>, uuid)

\* add_feature, replan: a new clarification-stage planning task, dispatched
handlePlanningRequest(state, intent, now, uuid) ==
  LET planningTask == buildPlanningTask(uuid + 1, "clarification", now)
      result == markTasksForDispatch(Append(state.pendingTasks, planningTask),
                                     <<planningTask.id>>, now)
  IN Result(applyTransition(state, intent.type, state.phase, "planning", now,
              [pendingTasks |-> result.updatedTasks]),
            DispatchEffects(result.tasks), uuid + 1)

handleCreateProject(intent, now, uuid) ==
  LET baseState == createProjectState(now, intent.settings)
      planningTask == buildPlanningTask(uuid + 1, "clarification", now)
      result == markTasksForDispatch(<<planningTask>>, <<planningTask.id>>, now)
  IN Result(applyTransition(baseState, intent.type, "idle", "planning", now,
              [pendingTasks |-> result.updatedTasks]),
            DispatchEffects(result.tasks), uuid + 1)

handleClarificationRequest(state, intent, now, uuid) ==
  LET clarification == createClarificationRecord(intent.questions, now)
  IN Result(applyTransition(state, intent.type, state.phase, "awaiting_clarification", now,
              [clarifications |-> Append(state.clarifications, clarification),
               discussion |-> appendDiscussion(state.discussion, now, "clarification",
                                               "Clarifications requested")]),
            <<>>, uuid)

handleClarificationAnswer(state, intent, now, uuid) ==
  LET upd == updateClarificationAnswers(state.clarifications, intent.clarificationId,
                                        intent.answers, now)
      planningTask == buildPlanningTask(uuid + 1, "clarification", now)
      result == markTasksForDispatch(Append(state.pendingTasks, planningTask),
                                     <<planningTask.id>>, now)
  IN IF ~upd.found
     THEN failTransition(state, intent, "Clarification not found", now, uuid)
     ELSE Result(applyTransition(state, intent.type, state.phase, "planning", now,
                   [clarifications |-> upd.clarifications,
                    discussion |-> appendDiscussion(state.discussion, now, "clarification",
                                                    "Clarifications answered"),
                    pendingTasks |-> result.updatedTasks]),
                 DispatchEffects(result.tasks), uuid + 1)

\* handleFinalizeScope that stamps resolvedAt = now on every record it resolves
handleFinalizeScope_Restamp(state, intent, now, uuid) ==
  LET clarifications ==
        MapSeq(state.clarifications,
               LAMBDA r : IF r.status = "resolved" THEN r
                          ELSE [r EXCEPT !.status = "resolved", !.resolvedAt = now])
      planningTask == buildPlanningTask(uuid + 1, "final", now)
      result == markTasksForDispatch(Append(state.pendingTasks, planningTask),
                                     <<planningTask.id>>, now)
  IN Result(applyTransition(state, intent.type, state.phase, "planning", now,
              [clarifications |-> clarifications,
               discussion |-> appendDiscussion(state.discussion, now, "plan",
                                               "Scope finalized for planning"),
               pendingTasks |-> result.updatedTasks]),
            DispatchEffects(result.tasks), uuid + 1)

handleFinalizeScope(state, intent, now, uuid) ==
  LET clarifications ==
        MapSeq(state.clarifications,
               LAMBDA r : IF r.status = "resolved" THEN r
                          ELSE [r EXCEPT !.status = "resolved",
                                         !.resolvedAt = IF r.resolvedAt # 0
                                                        THEN r.resolvedAt ELSE now])
      planningTask == buildPlanningTask(uuid + 1, "final", now)
      result == markTasksForDispatch(Append(state.pendingTasks, planningTask),
                                     <<planningTask.id>>, now)
  IN Result(applyTransition(state, intent.type, state.phase, "planning", now,
              [clarifications |-> clarifications,
               discussion |-> appendDiscussion(state.discussion, now, "plan",
                                               "Scope finalized for planning"),
               pendingTasks |-> result.updatedTasks]),
            DispatchEffects(result.tasks), uuid + 1)


\* -------------------------------------------------------------------- plans
\* the snapshot normalizePlanSnapshot builds for plan draft p
normalizePlanSnapshot(p, now) ==
  [ id |-> p, createdAt |-> now, tasks |-> [ i \in 1..PlanTaskCount(p) |-> i ] ]

HasApproval(approvals, approvalId) ==
  \E i \in 1..Len(approvals) : approvals[i].id = approvalId

FindApproval(approvals, approvalId) ==
  FindSeq(approvals, LAMBDA a : a.id = approvalId)

RemoveApproval(approvals, approvalId) ==
  SelectSeq(approvals, LAMBDA a : a.id # approvalId)

\* the existing execution state handlePlanApproval hands to buildExecutionState
PlanApprovalSeed(state) == NoExecution

handlePlanApproval(state, intent, now, uuid) ==
  IF ~HasApproval(state.approvals, intent.approvalId)
  THEN failTransition(state, intent, "Plan approval mismatch", now, uuid)
  ELSE
  LET approval == FindApproval(state.approvals, intent.approvalId) IN
  IF approval.type # "plan" \/ approval.planId # intent.planId
  THEN failTransition(state, intent, "Plan approval mismatch", now, uuid)
  ELSE IF intent.planId \notin DOMAIN state.plans
  THEN failTransition(state, intent, "Plan not found for approval", now, uuid)
  ELSE
  LET plan == state.plans[intent.planId]
      approvals == RemoveApproval(state.approvals, approval.id)
      executionTasks == buildExecutionTasks(plan, now, uuid)
      pendingTasks == state.pendingTasks \o executionTasks
      newIds == MapSeq(executionTasks, LAMBDA t : t.id)
      discussion == appendDiscussion(state.discussion, now, "plan", "Plan approved")
      newUuid == uuid + Len(executionTasks)
  IN IF state.settings.requireExecutionApproval
     THEN LET executionApproval ==
                createExecutionApproval("execution_start", plan.id, newIds, now)
          IN Result(applyTransition(state, intent.type, state.phase,
                      "awaiting_execution_approval", now,
                      [approvals |-> Append(approvals, executionApproval),
                       pendingTasks |-> pendingTasks,
                       execution |-> buildExecutionState(pendingTasks, PlanApprovalSeed(state)),
                       discussion |-> discussion,
                       currentPlanId |-> plan.id]),
                    << [type |-> "request_approval", approval |-> executionApproval] >>,
                    newUuid)
     ELSE LET tasksToDispatch == markTasksForDispatch(pendingTasks, newIds, now)
          IN Result(applyTransition(state, intent.type, state.phase,
                      IF Len(executionTasks) = 0 THEN "completed" ELSE "executing", now,
                      [approvals |-> approvals,
                       pendingTasks |-> tasksToDispatch.updatedTasks,
                       execution |-> buildExecutionState(tasksToDispatch.updatedTasks,
                                                         PlanApprovalSeed(state)),
                       discussion |-> discussion,
                       currentPlanId |-> plan.id]),
                    DispatchEffects(tasksToDispatch.tasks), newUuid)

handleExecutionApproval(state, intent, now, uuid) ==
  IF ~HasApproval(state.approvals, intent.approvalId)
  THEN failTransition(state, intent, "Execution approval mismatch", now, uuid)
  ELSE
  LET approval == FindApproval(state.approvals, intent.approvalId) IN
  IF ~IsExecutionApproval(approval)
  THEN failTransition(state, intent, "Execution approval mismatch", now, uuid)
  ELSE
  LET result == markTasksForDispatch(state.pendingTasks, approval.taskIds, now)
  IN Result(applyTransition(state, intent.type, state.phase, "executing", now,
              [approvals |-> RemoveApproval(state.approvals, intent.approvalId),
               pendingTasks |-> result.updatedTasks,
               execution |-> buildExecutionState(result.updatedTasks, state.execution),
               discussion |-> appendDiscussion(state.discussion, now, "execution",
                                IF approval.type = "execution_retry"
                                THEN "Retry approved" ELSE "Execution approved")]),
            DispatchEffects(result.tasks), uuid)

handleRunTasks(state, intent, now, uuid) ==
  IF hasExecutionApprovalPending(state.approvals)
  THEN rejectTransition(state, intent, "Execution approval required", now, uuid)
  ELSE
  LET targetIds == IF Len(intent.taskIds) > 0 THEN intent.taskIds
                   ELSE MapSeq(SelectSeq(state.pendingTasks, LAMBDA t : t.status = "pending"),
                               LAMBDA t : t.id)
      result == markTasksForDispatch(state.pendingTasks, targetIds, now)
  IN Result(applyTransition(state, intent.type, state.phase, state.phase, now,
              [pendingTasks |-> result.updatedTasks,
               execution |-> buildExecutionState(result.updatedTasks, state.execution)]),
            DispatchEffects(result.tasks), uuid)

\* a selection that takes the named execution tasks whatever their status
RetrySelection_AnyStatus(state, taskIds) ==
  IF Len(taskIds) > 0
  THEN MapSeq(SelectSeq(state.pendingTasks,
                LAMBDA t : IsExecution(t) /\ Includes(taskIds, t.id)),
              LAMBDA t : t.id)
  ELSE getFailedTaskIds(state.pendingTasks)

\* the failed execution tasks retry_tasks selects
RetrySelection(state, taskIds) ==
  IF Len(taskIds) > 0
  THEN MapSeq(SelectSeq(state.pendingTasks,
                LAMBDA t : IsExecution(t) /\ Includes(taskIds, t.id) /\ t.status = "failed"),
              LAMBDA t : t.id)
  ELSE getFailedTaskIds(state.pendingTasks)

\* a reset that also forgets the dispatch
ResetForRetry_ClearDispatch(task) == [task EXCEPT !.status = "pending", !.dispatchedAt = 0]

\* the task as handleRetryTasks resets it
ResetForRetry(task) == [task EXCEPT !.status = "pending"]

handleRetryTasks(state, intent, now, uuid) ==
  LET failedTaskIds == RetrySelection(state, intent.taskIds) IN
  IF Len(failedTaskIds) = 0 THEN Result(state, <<>>, uuid)
  ELSE
  LET pendingTasks == MapSeq(state.pendingTasks,
                        LAMBDA t : IF Includes(failedTaskIds, t.id) THEN ResetForRetry(t) ELSE t)
      executionSeed == pruneExecutionResults(state.execution, failedTaskIds)
  IN IF state.settings.requireRetryApproval
     THEN LET approval == createExecutionApproval("execution_retry", state.currentPlanId,
                                                  failedTaskIds, now)
          IN Result(applyTransition(state, intent.type, state.phase,
                      "awaiting_execution_approval", now,
                      [approvals |-> Append(state.approvals, approval),
                       pendingTasks |-> pendingTasks,
                       execution |-> buildExecutionState(pendingTasks, executionSeed),
                       discussion |-> appendDiscussion(state.discussion, now, "execution",
                                                       "Retry requested")]),
                    << [type |-> "request_approval", approval |-> approval] >>, uuid)
     ELSE LET result == markTasksForDispatch(pendingTasks, failedTaskIds, now)
          IN \* finalizeRetryTransition
             Result(applyTransition(state, intent.type, state.phase, "executing", now,
                      [approvals |-> state.approvals,
                       pendingTasks |-> result.updatedTasks,
                       execution |-> buildExecutionState(result.updatedTasks, executionSeed),
                       discussion |-> appendDiscussion(state.discussion, now, "execution",
                                                       "Retry dispatched")]),
                    DispatchEffects(result.tasks), uuid)


\* ------------------------------------------------------------- agent results
\* planner outputs: questions is the raw questions array (an entry 0 is an
\* entry that is not a string, any other entry a question string), plan a
\* plan draft or 0 when the output holds no plan candidate
NoOutput == [questions |-> <<>>, plan |-> 0]

\* a question is an entry of the questions array that is a string
IsQuestion(entry) == entry # 0

\* parsePlanningOutput of the state machine: the string entries of questions
\* and the plan candidate
parsePlanningOutput(output) ==
  [questions |-> SelectSeq(output.questions, IsQuestion), plan |-> output.plan]

StatusOf(resultStatus) == IF resultStatus = "success" THEN "completed" ELSE "failed"

HasTask(tasks, taskId) == \E i \in 1..Len(tasks) : tasks[i].id = taskId

FindTask(tasks, taskId) == FindSeq(tasks, LAMBDA t : t.id = taskId)

\* handlePlanningResult looking at the plan candidate before the questions
handlePlanningResult_PlanFirst(state, intent, updatedTasks, now, uuid) ==
  IF intent.status # "success"
  THEN Result(applyTransition(state, intent.type, state.phase, "error", now,
                [pendingTasks |-> updatedTasks,
                 discussion |-> appendDiscussion(state.discussion, now, "system",
                                                 "Planning failed")]),
              <<>>, uuid)
  ELSE
  LET planningOutput == parsePlanningOutput(intent.output) IN
  IF Len(planningOutput.questions) > 0 /\ planningOutput.plan = 0
  THEN LET clarification == createClarificationRecord(planningOutput.questions, now)
       IN Result(applyTransition(state, intent.type, state.phase,
                   "awaiting_clarification", now,
                   [pendingTasks |-> updatedTasks,
                    clarifications |-> Append(state.clarifications, clarification),
                    discussion |-> appendDiscussion(state.discussion, now, "clarification",
                                                    "Clarifications requested")]),
                 <<>>, uuid)
  ELSE IF planningOutput.plan = 0
  THEN Result(applyTransition(state, intent.type, state.phase, "planning", now,
                [pendingTasks |-> updatedTasks, discussion |-> state.discussion]),
              <<>>, uuid)
  ELSE
  LET planSnapshot == normalizePlanSnapshot(planningOutput.plan, now)
      plans == [ id \in (DOMAIN state.plans) \cup {planSnapshot.id} |->
                   IF id = planSnapshot.id THEN planSnapshot ELSE state.plans[id] ]
      approval == createPlanApproval(planSnapshot, now)
  IN Result(applyTransition(state, intent.type, state.phase, "awaiting_approval", now,
              [pendingTasks |-> updatedTasks,
               plans |-> plans,
               currentPlanId |-> planSnapshot.id,
               approvals |-> Append(state.approvals, approval),
               discussion |-> appendDiscussion(state.discussion, now, "plan",
                                               "Plan candidate ready for approval")]),
            << [type |-> "request_approval", approval |-> approval] >>, uuid)

handlePlanningResult(state, intent, updatedTasks, now, uuid) ==
  IF intent.status # "success"
  THEN Result(applyTransition(state, intent.type, state.phase, "error", now,
                [pendingTasks |-> updatedTasks,
                 discussion |-> appendDiscussion(state.discussion, now, "system",
                                                 "Planning failed")]),
              <<>>, uuid)
  ELSE
  LET planningOutput == parsePlanningOutput(intent.output) IN
  IF Len(planningOutput.questions) > 0
  THEN LET clarification == createClarificationRecord(planningOutput.questions, now)
       IN Result(applyTransition(state, intent.type, state.phase,
                   "awaiting_clarification", now,
                   [pendingTasks |-> updatedTasks,
                    clarifications |-> Append(state.clarifications, clarification),
                    discussion |-> appendDiscussion(state.discussion, now, "clarification",
                                                    "Clarifications requested")]),
                 <<>>, uuid)
  ELSE IF planningOutput.plan = 0
  THEN Result(applyTransition(state, intent.type, state.phase, "planning", now,
                [pendingTasks |-> updatedTasks, discussion |-> state.discussion]),
              <<>>, uuid)
  ELSE
  LET planSnapshot == normalizePlanSnapshot(planningOutput.plan, now)
      plans == [ id \in (DOMAIN state.plans) \cup {planSnapshot.id} |->
                   IF id = planSnapshot.id THEN planSnapshot ELSE state.plans[id] ]
      approval == createPlanApproval(planSnapshot, now)
  IN Result(applyTransition(state, intent.type, state.phase, "awaiting_approval", now,
              [pendingTasks |-> updatedTasks,
               plans |-> plans,
               currentPlanId |-> planSnapshot.id,
               approvals |-> Append(state.approvals, approval),
               discussion |-> appendDiscussion(state.discussion, now, "plan",
                                               "Plan candidate ready for approval")]),
            << [type |-> "request_approval", approval |-> approval] >>, uuid)

\* handleExecutionResult going to error at the first failure
handleExecutionResult_FailFast(state, intent, updatedTasks, now, uuid) ==
  LET execution == updateExecutionState(state.execution, updatedTasks,
                                        intent.taskId, intent.status)
      summary == execution.summary
      failures == execution.failures
      nextPhase ==
        IF summary.total > 0 /\ summary.completed = summary.total /\ Len(failures) = 0
        THEN "completed"
        ELSE IF Len(failures) > 0 THEN "error"
        ELSE state.phase
  IN Result(applyTransition(state, intent.type, state.phase, nextPhase, now,
              [pendingTasks |-> updatedTasks,
               execution |-> execution,
               discussion |-> appendDiscussion(state.discussion, now, "execution",
                                IF intent.status = "success"
                                THEN "Execution task completed"
                                ELSE "Execution task failed")]),
            <<>>, uuid)

handleExecutionResult(state, intent, updatedTasks, now, uuid) ==
  LET execution == updateExecutionState(state.execution, updatedTasks,
                                        intent.taskId, intent.status)
      summary == execution.summary
      failures == execution.failures
      pendingCount == summary.total - summary.completed - summary.failed
      nextPhase ==
        IF summary.total > 0 /\ summary.completed = summary.total /\ Len(failures) = 0
        THEN "completed"
        ELSE IF Len(failures) > 0 /\ pendingCount = 0 THEN "error"
        ELSE state.phase
  IN Result(applyTransition(state, intent.type, state.phase, nextPhase, now,
              [pendingTasks |-> updatedTasks,
               execution |-> execution,
               discussion |-> appendDiscussion(state.discussion, now, "execution",
                                IF intent.status = "success"
                                THEN "Execution task completed"
                                ELSE "Execution task failed")]),
            <<>>, uuid)

handleAgentResult(state, intent, now, uuid) ==
  IF ~HasTask(state.pendingTasks, intent.taskId)
  THEN failTransition(state, intent, "Task not found for agent result", now, uuid)
  ELSE
  LET task == FindTask(state.pendingTasks, intent.taskId)
      updatedTasks == MapSeq(state.pendingTasks,
                        LAMBDA t : IF t.id = intent.taskId
                                   THEN [t EXCEPT !.status = StatusOf(intent.status)]
                                   ELSE t)
  IN IF task.type = "planning"
     THEN handlePlanningResult(state, intent, updatedTasks, now, uuid)
     ELSE handleExecutionResult(state, intent, updatedTasks, now, uuid)

handlePauseExecution(state, intent, now, uuid) ==
  Result(applyTransition(state, intent.type, state.phase, "paused", now,
           [discussion |-> appendDiscussion(state.discussion, now, "system",
                                            "Execution paused")]),
         <<>>, uuid)

transitionState(state, intent, now, uuid) ==
  CASE intent.type = "create_project"         -> handleCreateProject(intent, now, uuid)
    [] intent.type = "add_feature"            -> handlePlanningRequest(state, intent, now, uuid)
    [] intent.type = "request_clarifications" -> handleClarificationRequest(state, intent, now, uuid)
    [] intent.type = "answer_clarifications"  -> handleClarificationAnswer(state, intent, now, uuid)
    [] intent.type = "finalize_scope"         -> handleFinalizeScope(state, intent, now, uuid)
    [] intent.type = "approve_plan"           -> handlePlanApproval(state, intent, now, uuid)
    [] intent.type = "approve_execution"      -> handleExecutionApproval(state, intent, now, uuid)
    [] intent.type = "replan"                 -> handlePlanningRequest(state, intent, now, uuid)
    [] intent.type = "run_tasks"              -> handleRunTasks(state, intent, now, uuid)
    [] intent.type = "retry_tasks"            -> handleRetryTasks(state, intent, now, uuid)
    [] intent.type = "pause_execution"        -> handlePauseExecution(state, intent, now, uuid)
    [] intent.type = "agent_result"           -> handleAgentResult(state, intent, now, uuid)


\* ============================================================ planning logic
\* src/logic: readiness, prompts, the planning-output parser and the planner
\* retry loop.  A string is a sequence of words: " " is white space, a
\* capitalised word is the spelling that toLowerCase folds.  An optional
\* value is [defined, value]; value is a placeholder when it is undefined.
Some(v) == [defined |-> TRUE, value |-> v]

None(v) == [defined |-> FALSE, value |-> v]

\* String.prototype.toLowerCase
toLowerCase(str) ==
  [ k \in DOMAIN str |->
      CASE str[k] = "Customer" -> "customer"
        [] str[k] = "Tech"     -> "tech"
        [] OTHER               -> str[k] ]

\* String.prototype.includes, for a keyword
includes(str, keyword) == \E k \in DOMAIN str : str[k] = keyword

\* String.prototype.trim
trim(str) ==
  LET RECURSIVE trimStart(_)
      trimStart(s) == IF Len(s) > 0 /\ Head(s) = " " THEN trimStart(Tail(s)) ELSE s
      RECURSIVE trimEnd(_)
      trimEnd(s) == IF Len(s) > 0 /\ s[Len(s)] = " "
                    THEN trimEnd(SubSeq(s, 1, Len(s) - 1))
                    ELSE s
  IN trimEnd(trimStart(str))

\* ------------------------------------------------------------- decision.ts
hasNonEmptyArray(arr) == arr.defined /\ Len(arr.value) > 0

hasNonEmptyString(str) == str.defined /\ Len(trim(str.value)) > 0

checkContextCoverage(context) ==
  [ icp          |-> context.defined /\ hasNonEmptyString(context.value.icp),
    techStack    |-> context.defined /\ hasNonEmptyArray(context.value.techStack),
    constraints  |-> context.defined /\ hasNonEmptyArray(context.value.constraints),
    coreFeatures |-> context.defined /\ hasNonEmptyArray(context.value.coreFeatures) ]

\* the inner loop of extractAnsweredClarifications, from index i on:
\* answers[i] is undefined beyond the end of answers, "" is falsy
RECURSIVE AnsweredPairs(_, _)
AnsweredPairs(record, i) ==
  IF i > Len(record.questions) THEN <<>>
  ELSE ( IF /\ Len(record.questions[i]) > 0
            /\ i <= Len(record.answers)
            /\ Len(record.answers[i]) > 0
         THEN << [question |-> record.questions[i], answer |-> record.answers[i]] >>
         ELSE <<>> ) \o AnsweredPairs(record, i + 1)

RECURSIVE extractAnsweredClarifications(_)
extractAnsweredClarifications(clarifications) ==
  IF clarifications = <<>> THEN <<>>
  ELSE LET record == Head(clarifications)
       IN ( IF record.status \in {"answered", "resolved"}
            THEN AnsweredPairs(record, 1)
            ELSE <<>> ) \o extractAnsweredClarifications(Tail(clarifications))

\* hasAnswerForTopic accepting an answer that is only white space
hasAnswerForTopic_NoTrim(clarifications, keywords) ==
  \E k \in DOMAIN clarifications :
    LET lowerQuestion == toLowerCase(clarifications[k].question)
        lowerAnswer   == toLowerCase(clarifications[k].answer)
    IN \E keyword \in keywords :
         includes(lowerQuestion, keyword) \/ includes(lowerAnswer, keyword)

hasAnswerForTopic(clarifications, keywords) ==
  \E k \in DOMAIN clarifications :
    LET lowerQuestion == toLowerCase(clarifications[k].question)
        lowerAnswer   == toLowerCase(clarifications[k].answer)
    IN \E keyword \in keywords :
         /\ includes(lowerQuestion, keyword) \/ includes(lowerAnswer, keyword)
         /\ Len(trim(clarifications[k].answer)) > 0

\* the keyword lists checkReadiness passes to hasAnswerForTopic
TopicKeywords ==
  [ icp          |-> {"icp", "customer", "user", "audience", "target"},
    techStack    |-> {"tech", "stack", "technology", "framework", "language"},
    constraints  |-> {"constraint", "limit", "budget", "timeline", "deadline"},
    coreFeatures |-> {"feature", "functionality", "requirement", "must-have", "core"} ]

checkReadiness(input) ==
  LET goalPresent     == hasNonEmptyString(input.goal)
      contextCoverage == checkContextCoverage(input.context)
      answeredClarifications == extractAnsweredClarifications(input.clarifications)
      coverage ==
        [ goal         |-> goalPresent,
          icp          |-> contextCoverage.icp
                             \/ hasAnswerForTopic(answeredClarifications, TopicKeywords.icp),
          techStack    |-> contextCoverage.techStack
                             \/ hasAnswerForTopic(answeredClarifications, TopicKeywords.techStack),
          constraints  |-> contextCoverage.constraints
                             \/ hasAnswerForTopic(answeredClarifications, TopicKeywords.constraints),
          coreFeatures |-> contextCoverage.coreFeatures
                             \/ hasAnswerForTopic(answeredClarifications, TopicKeywords.coreFeatures) ]
      missingFields ==
        SelectSeq(<<"goal", "icp", "techStack", "constraints", "coreFeatures">>,
                  LAMBDA f : ~coverage[f])
  IN [ ready |-> Len(missingFields) = 0,
       missingFields |-> missingFields,
       coverage |-> coverage ]

isReadyToPlan(input) ==
  IF input.stage = "final" THEN TRUE ELSE checkReadiness(input).ready

buildPromptContext(input) ==
  [ goal    |-> input.goal,
    context |-> input.context,
    answeredClarifications |-> extractAnsweredClarifications(input.clarifications),
    stage   |-> input.stage,
    note    |-> input.note ]

\* -------------------------------------------------------------- prompts.ts
\* A prompt is the template it was built from, the context substituted into
\* it and the templates appended to it.
buildConversationPrompt(promptContext) ==
  [template |-> "conversation", context |-> promptContext, suffix |-> <<>>]

buildClarificationPrompt(promptContext, mode) ==
  IF mode = "conversation"
  THEN buildConversationPrompt(promptContext)
  ELSE [template |-> "clarification", context |-> promptContext, suffix |-> <<>>]

buildPlanningPrompt(promptContext) ==
  [template |-> "planning", context |-> promptContext, suffix |-> <<>>]

\* a strict prompt that is the reminder alone
buildStrictJsonPrompt_ReminderOnly(originalPrompt) ==
  [template |-> "strict_json", context |-> originalPrompt.context, suffix |-> <<>>]

buildStrictJsonPrompt(originalPrompt) ==
  [originalPrompt EXCEPT !.suffix = Append(@, "strict_json")]

\* --------------------------------------------------------------- schemas.ts
\* z.string().min(1) on a title
MilestoneDraftSchema(milestone) == Len(milestone.title) >= 1

FeatureDraftSchema(feature) == Len(feature.title) >= 1

\* role is required and may be any string
TaskDraftSchema(task) == Len(task.title) >= 1 /\ task.role.defined

PlanDraftSchema(plan) ==
  /\ Len(plan.roadmap) >= 1
  /\ \A k \in DOMAIN plan.roadmap : MilestoneDraftSchema(plan.roadmap[k])
  /\ Len(plan.features) >= 1
  /\ \A k \in DOMAIN plan.features : FeatureDraftSchema(plan.features[k])
  /\ Len(plan.tasks) >= 1
  /\ \A k \in DOMAIN plan.tasks : TaskDraftSchema(plan.tasks[k])

\* RawPlanningOutputSchema without its refinement
RawPlanningOutputSchema_NoRefine(data) ==
  /\ data.type = "object"
  /\ data.questions.defined =>
       /\ \A k \in DOMAIN data.questions.value : data.questions.value[k].type = "string"
       /\ Len(data.questions.value) <= 1
  /\ data.plan.defined => PlanDraftSchema(data.plan.value)

\* RawPlanningOutputSchema.parse(data) does not throw.  In the refinement
\* hasQuestions is undefined when questions is absent, and undefined !== false.
RawPlanningOutputSchema(data) ==
  /\ data.type = "object"
  /\ data.questions.defined =>
       /\ \A k \in DOMAIN data.questions.value : data.questions.value[k].type = "string"
       /\ Len(data.questions.value) <= 1
  /\ data.plan.defined => PlanDraftSchema(data.plan.value)
  /\ LET hasQuestions == IF ~data.questions.defined THEN "undefined"
                         ELSE IF Len(data.questions.value) > 0 THEN "true" ELSE "false"
         hasPlan      == IF data.plan.defined THEN "true" ELSE "false"
     IN hasQuestions # hasPlan

\* --------------------------------------------------------------- planner.ts
NoPlanDraft == [roadmap |-> <<>>, features |-> <<>>, tasks |-> <<>>]

NoPlanningOutput == [questions |-> None(<<>>), plan |-> None(NoPlanDraft)]

\* extractJsonFromResponse on a string response: the object is found when
\* the text is bare JSON, holds a fenced block or has prose around the
\* braces; otherwise it throws "No valid JSON object found in response"
extractJsonFromResponse(raw) ==
  IF raw.form = "json" THEN [threw |-> FALSE, value |-> raw.value]
  ELSE IF raw.form = "fenced" THEN [threw |-> FALSE, value |-> raw.value]
  ELSE IF raw.form = "prose" THEN [threw |-> FALSE, value |-> raw.value]
  ELSE [threw |-> TRUE, value |-> raw.value]

\* parsePlanningOutput of planner.ts (the state machine has its own)
planner_parsePlanningOutput(raw) ==
  LET extracted == IF raw.type = "string"
                   THEN extractJsonFromResponse(raw)
                   ELSE [threw |-> FALSE, value |-> raw.value]
      validated == extracted.value
  IN IF extracted.threw \/ ~RawPlanningOutputSchema(validated)
     THEN [success |-> FALSE, output |-> NoPlanningOutput, error |-> "Validation failed"]
     ELSE IF validated.questions.defined /\ Len(validated.questions.value) = 1
     THEN [ success |-> TRUE,
            output  |-> [ questions |-> Some(<<validated.questions.value[1].value>>),
                          plan      |-> None(NoPlanDraft) ],
            error   |-> "" ]
     ELSE IF validated.plan.defined
     THEN [ success |-> TRUE,
            output  |-> [questions |-> None(<<>>), plan |-> validated.plan],
            error   |-> "" ]
     ELSE [ success |-> FALSE, output |-> NoPlanningOutput,
            error   |-> "Output contains neither valid questions nor a valid plan" ]

getPromptForInput(input, options) ==
  LET promptContext == buildPromptContext(input)
      mode == IF options.mode = "undefined" THEN "conversation" ELSE options.mode
  IN IF isReadyToPlan(input)
     THEN buildPlanningPrompt(promptContext)
     ELSE buildClarificationPrompt(promptContext, mode)

\* ===================================================== sequential behaviour
\* One intent is handled to completion at a time: the result of
\* transitionState becomes the state and its side effects are surfaced.
VARIABLES
  state,      \* the ProjectState (meaningful when loaded)
  loaded,     \* a ProjectState exists (this.state is not null)
  effects,    \* sideEffects returned for the last intent
  intent,     \* the last intent handled
  clock,      \* the timestamp `now` of the last transition
  uuid,       \* number of randomUUID() values drawn
  projects,   \* number of create_project intents handled
  consumed,   \* approvals consumed by accepted approve_plan / approve_execution
  store,      \* the StateStore: [saved, state, file], the state last handed
              \* to a completed save and the JSON text the file holds
  calls,      \* the handleIntent calls of the facade, by call number
  instances,  \* number of Orchestrator objects constructed on the store
  logic,      \* the run of the planning logic: input, prompt, planner calls
  awaited     \* ids of the tasks of the dispatch_agent_task effects returned
              \* by transitionState that no agent_result has answered yet

vars == <<state, loaded, effects, intent, clock, uuid, projects, consumed, store, calls,
          instances, logic, awaited>>

\* ------------------------------------------------- planning logic: inputs
NoProjectContext ==
  [icp |-> None(<<>>), techStack |-> None(<<>>),
   constraints |-> None(<<>>), coreFeatures |-> None(<<>>)]

\* a PlanningInput with nothing in it
NoInput ==
  [goal |-> None(<<>>), context |-> None(NoProjectContext), clarifications |-> <<>>,
   stage |-> "clarification", note |-> None(<<>>)]

\* no call of the planning logic has been made
NoLogic ==
  [ pc |-> "idle", input |-> NoInput, options |-> [mode |-> "undefined"],
    readiness |-> checkReadiness(NoInput), ready |-> FALSE,
    prompt |-> [template |-> "none", context |-> buildPromptContext(NoInput), suffix |-> <<>>],
    prompts |-> <<>>, responses |-> <<>>, parses |-> <<>>,
    result |-> [defined |-> FALSE, success |-> FALSE, output |-> NoPlanningOutput,
                retried |-> FALSE, error |-> ""] ]

\* the PlanningInputs readiness is evaluated on.  A ClarificationRecord has
\* one question and at most one answer: no answer, an empty answer, a blank
\* answer, answers with and without keywords, an empty question.
PlanningInputs ==
  LET AllTopics == <<"user", "Tech", "budget", "core">>
      QuestionAnswers ==
        { [questions |-> << <<"x">> >>,        answers |-> <<>>],
          [questions |-> << <<"x">> >>,        answers |-> << <<>> >>],
          [questions |-> << <<"Customer">> >>, answers |-> << <<" ">> >>],
          [questions |-> << <<"Customer">> >>, answers |-> << <<"x">> >>],
          [questions |-> << <<>> >>,           answers |-> <<AllTopics>>],
          [questions |-> << <<"x">> >>,        answers |-> <<AllTopics>>] }
      ClarificationRecords ==
        { [status |-> s, questions |-> qa.questions, answers |-> qa.answers] :
            s \in {"open", "answered", "resolved"}, qa \in QuestionAnswers }
      ProjectContexts ==
        { None(NoProjectContext) } \cup
        { Some([icp |-> i, techStack |-> t, constraints |-> c, coreFeatures |-> f]) :
            i \in {None(<<>>), Some(<<" ">>), Some(<<"x">>)},
            t \in {None(<<>>), Some(<<>>), Some(<< <<"x">> >>)},
            c \in {None(<<>>), Some(<< <<"x">> >>)},
            f \in {None(<<>>), Some(<< <<"x">> >>)} }
  IN { [goal |-> g, context |-> c, clarifications |-> cl, stage |-> st, note |-> None(<<>>)] :
         g \in {None(<<>>), Some(<<" ">>), Some(<<"g">>)},
         c \in ProjectContexts,
         cl \in UNION { [1..n -> ClarificationRecords] : n \in 0..MaxClarifications },
         st \in {"clarification", "final"} }

\* the PlanningInputs the planner is run on: not ready, ready, final
PlannerInputs ==
  { NoInput,
    [NoInput EXCEPT !.stage = "final"],
    [NoInput EXCEPT !.goal = Some(<<"g">>),
                    !.clarifications =
                       << [status |-> "answered", questions |-> << <<"x">> >>,
                           answers |-> << <<"user", "Tech", "budget", "core">> >>] >>] }

\* the options the planner is run with: every mode for the input that is
\* not ready, the default otherwise
PlannerOptions(input) ==
  IF input = NoInput
  THEN { [mode |-> m] : m \in {"undefined", "checklist", "conversation"} }
  ELSE { [mode |-> "undefined"] }

\* ---------------------------------------------- planning logic: responses
\* What adapter.completeJson may resolve to: a decoded value, or a string
\* that is bare JSON, holds a fenced block, has prose around an object, or
\* holds no JSON at all.  The decoded values are null and the objects made of
\* every questions array (entries: the empty string, a question, a number)
\* with and without a valid plan, and of the other plan drafts on their own.
RawResponses ==
  LET ValidPlanDraft ==
        [ roadmap  |-> << [title |-> <<"m">>] >>,
          features |-> << [title |-> <<"f">>] >>,
          tasks    |-> << [title |-> <<"t">>, role |-> Some("backend")] >> ]
      PlanDrafts ==
        { ValidPlanDraft,
          [ValidPlanDraft EXCEPT !.tasks = <<>>],
          [ValidPlanDraft EXCEPT !.roadmap = << [title |-> <<>>] >>],
          [ValidPlanDraft EXCEPT !.tasks = << [title |-> <<"t">>, role |-> None("")] >>] }
      QuestionEntries ==
        { [type |-> "string", value |-> <<>>],
          [type |-> "string", value |-> <<"q">>],
          [type |-> "number", value |-> <<>>] }
      QuestionArrays == UNION { [1..n -> QuestionEntries] : n \in 0..MaxQuestions }
      DecodedObjects ==
        { [type |-> "object", questions |-> q, plan |-> p] :
            q \in {None(<<>>)} \cup { Some(a) : a \in QuestionArrays },
            p \in {None(NoPlanDraft), Some(ValidPlanDraft)} }
          \cup { [type |-> "object", questions |-> None(<<>>), plan |-> Some(d)] :
                   d \in PlanDrafts }
      JsonNull == [type |-> "null", questions |-> None(<<>>), plan |-> None(NoPlanDraft)]
      OneQuestion == << [type |-> "string", value |-> <<"q">>] >>
      TextSamples ==
        { [type |-> "object", questions |-> Some(OneQuestion), plan |-> None(NoPlanDraft)],
          [type |-> "object", questions |-> None(<<>>), plan |-> Some(ValidPlanDraft)],
          [type |-> "object", questions |-> Some(OneQuestion), plan |-> Some(ValidPlanDraft)] }
  IN { [type |-> "value", form |-> "none", value |-> v] : v \in DecodedObjects \cup {JsonNull} }
       \cup { [type |-> "string", form |-> f, value |-> v] :
                f \in {"json", "fenced", "prose"}, v \in TextSamples }
       \cup { [type |-> "string", form |-> "fenced", value |-> JsonNull],
              [type |-> "string", form |-> "garbage", value |-> JsonNull] }

NoIntent == [type |-> "none"]

\* a handleIntent call that has not been made yet
IdleCall ==
  [ pc |-> "idle", intent |-> NoIntent, preLoaded |-> FALSE,
    pre |-> createProjectState(0, <<>>), newState |-> createProjectState(0, <<>>),
    sideEffects |-> <<>>, next |-> 0, saved |-> FALSE, pred |-> 0,
    invoked |-> <<>>, resolved |-> 0, rejected |-> 0, instance |-> 0 ]

\* ------------------------------------------------------------ the JSON file
\* the optional properties of a task, a clarification and the state, with
\* the value that stands for undefined
UndefinedProperties ==
  [ task          |-> [dispatchedAt |-> 0, planId |-> 0, definitionId |-> 0],
    clarification |-> [resolvedAt |-> 0],
    state         |-> [context |-> NoContext, currentPlanId |-> 0, execution |-> NoExecution] ]

\* JSON.stringify of an object: a property whose value is undefined is left out
stringifyObject(obj, undef) ==
  [ k \in { key \in DOMAIN obj : ~(key \in DOMAIN undef /\ obj[key] = undef[key]) } |-> obj[k] ]

\* JSON.parse of an object: a property the text does not hold reads undefined
parseObject(text, undef) ==
  [ k \in DOMAIN text \cup DOMAIN undef |-> IF k \in DOMAIN text THEN text[k] ELSE undef[k] ]

\* JSON.stringify(state, null, 2)
JSON_stringify(s) ==
  stringifyObject(
    [s EXCEPT !.pendingTasks = [i \in DOMAIN @ |-> stringifyObject(@[i], UndefinedProperties.task)],
              !.clarifications = [i \in DOMAIN @ |-> stringifyObject(@[i], UndefinedProperties.clarification)]],
    UndefinedProperties.state)

\* JSON.parse(raw) as ProjectState
JSON_parse(text) ==
  LET top == parseObject(text, UndefinedProperties.state)
  IN [top EXCEPT !.pendingTasks = [i \in DOMAIN @ |-> parseObject(@[i], UndefinedProperties.task)],
                 !.clarifications = [i \in DOMAIN @ |-> parseObject(@[i], UndefinedProperties.clarification)]]

\* what JsonStateStore.save(s) leaves in the store when it resolves
JsonStateStore_save(s) == [saved |-> TRUE, state |-> s, file |-> JSON_stringify(s)]

\* JsonStateStore.load(): null when there is no file
JsonStateStore_load(st) ==
  IF st.saved
  THEN [found |-> TRUE, state |-> JSON_parse(st.file)]
  ELSE [found |-> FALSE, state |-> createProjectState(0, <<>>)]

EmptyStore ==
  [saved |-> FALSE, state |-> createProjectState(0, <<>>),
   file |-> JSON_stringify(createProjectState(0, <<>>))]

\* partial settings objects a create_project payload may carry
SettingsInputs ==
  { <<>>,
    [requireExecutionApproval |-> TRUE],
    [requireRetryApproval |-> FALSE],
    [requireExecutionApproval |-> TRUE, requireRetryApproval |-> FALSE] }

\* outputs a planner result may carry
PlannerOutputs ==
  { NoOutput, [questions |-> <<1>>, plan |-> 0] }
    \cup { [questions |-> <<>>, plan |-> p] : p \in PlanIds }

\* outputs that carry questions and a plan, or entries that are not strings
MixedOutputs ==
  { [questions |-> <<1>>, plan |-> 1],
    [questions |-> <<0>>, plan |-> 1],
    [questions |-> <<0>>, plan |-> 0],
    [questions |-> <<0, 1>>, plan |-> 0] }

TaskIds(s) == { s.pendingTasks[i].id : i \in 1..Len(s.pendingTasks) }

ApprovalIds(s) == { s.approvals[i].id : i \in 1..Len(s.approvals) }

ClarificationIds(s) == { s.clarifications[i].id : i \in 1..Len(s.clarifications) }

\* intent i is an approve_plan / approve_execution that state s accepts
AcceptsApproval(s, i) ==
  /\ i.type \in {"approve_plan", "approve_execution"}
  /\ HasApproval(s.approvals, i.approvalId)
  /\ LET a == FindApproval(s.approvals, i.approvalId)
     IN IF i.type = "approve_execution" THEN IsExecutionApproval(a)
        ELSE a.type = "plan" /\ a.planId = i.planId /\ i.planId \in DOMAIN s.plans

\* the approval an accepted approve_plan / approve_execution intent consumes
ConsumedBy(s, i) ==
  IF AcceptsApproval(s, i) THEN {FindApproval(s.approvals, i.approvalId)} ELSE {}

Init ==
  /\ state = createProjectState(0, <<>>)
  /\ loaded = FALSE
  /\ effects = <<>>
  /\ intent = NoIntent
  /\ clock = 0
  /\ uuid = 0
  /\ projects = 0
  /\ consumed = {}
  /\ store = EmptyStore
  /\ calls = [c \in 1..MaxCalls |-> IdleCall]
  /\ instances = 1
  /\ logic = NoLogic
  /\ awaited = {}

\* handle intent i while fewer than limit transitions have been made
HandleUpTo(i, limit) ==
  LET now == clock + 1
      r == transitionState(state, i, now, uuid)
      \* ids of the tasks handed out by the dispatch_agent_task effects
      dispatchedIds ==
        { r.sideEffects[k].task.id :
            k \in { j \in 1..Len(r.sideEffects) :
                      r.sideEffects[j].type = "dispatch_agent_task" } }
  IN /\ clock < limit
     /\ r.uuid <= MaxUuid
     /\ state' = r.newState
     /\ effects' = r.sideEffects
     /\ intent' = i
     /\ uuid' = r.uuid
     /\ clock' = IF r.newState = state THEN clock ELSE now
     /\ consumed' = consumed \cup ConsumedBy(state, i)
     /\ projects' = IF i.type = "create_project" THEN projects + 1 ELSE projects
     /\ loaded' = TRUE
     /\ awaited' = (IF i.type = "agent_result" THEN awaited \ {i.taskId} ELSE awaited)
                     \cup dispatchedIds
     /\ UNCHANGED <<store, calls, instances, logic>>

Handle(i) == HandleUpTo(i, MaxSteps)

CreateProject ==
  /\ projects < MaxProjects
  /\ \E s \in SettingsInputs : Handle([type |-> "create_project", settings |-> s])

AddFeature ==
  /\ loaded
  /\ Handle([type |-> "add_feature"])

RequestClarifications ==
  /\ loaded
  /\ Handle([type |-> "request_clarifications", questions |-> <<1>>])

AnswerClarifications ==
  /\ loaded
  /\ \E c \in ClarificationIds(state) \cup {NoClarificationId} :
       Handle([type |-> "answer_clarifications", clarificationId |-> c, answers |-> <<1>>])

FinalizeScope ==
  /\ loaded
  /\ Handle([type |-> "finalize_scope"])

ApprovePlan ==
  /\ loaded
  /\ \E a \in ApprovalIds(state) \cup {NoApprovalId}, p \in PlanIds :
       Handle([type |-> "approve_plan", approvalId |-> a, planId |-> p])

ApproveExecution ==
  /\ loaded
  /\ \E a \in ApprovalIds(state) \cup {NoApprovalId} :
       Handle([type |-> "approve_execution", approvalId |-> a])

Replan ==
  /\ loaded
  /\ Handle([type |-> "replan"])

RunTasks ==
  /\ loaded
  /\ \E ids \in {<<>>} \cup { <<t>> : t \in TaskIds(state) } :
       Handle([type |-> "run_tasks", taskIds |-> ids])

RetryTasks ==
  /\ loaded
  /\ \E ids \in {<<>>} \cup { <<t>> : t \in TaskIds(state) \cup {0} } :
       Handle([type |-> "retry_tasks", taskIds |-> ids])

PauseExecution ==
  /\ loaded
  /\ Handle([type |-> "pause_execution"])

AgentResult ==
  /\ loaded
  /\ \/ \E t \in TaskIds(state), st \in {"success", "failure"} :
          Handle([type |-> "agent_result", taskId |-> t, status |-> st, output |-> NoOutput])
     \/ \E t \in TaskIds(state), out \in PlannerOutputs \ {NoOutput} :
          /\ FindTask(state.pendingTasks, t).type = "planning"
          /\ Handle([type |-> "agent_result", taskId |-> t, status |-> "success",
                     output |-> out])
     \/ Handle([type |-> "agent_result", taskId |-> 0, status |-> "failure",
                output |-> NoOutput])

Next ==
  \/ CreateProject
  \/ AddFeature
  \/ RequestClarifications
  \/ AnswerClarifications
  \/ FinalizeScope
  \/ ApprovePlan
  \/ ApproveExecution
  \/ Replan
  \/ RunTasks
  \/ RetryTasks
  \/ PauseExecution
  \/ AgentResult

Spec == Init /\ [][Next]_vars


\* ================================================ execution after a restart
\* A process that loads a persisted project which waits for the approval of
\* its first plan (create_project and one planner result have been handled),
\* and then handles the intents of the execution lifecycle.
PlanResult(t, p) ==
  [type |-> "agent_result", taskId |-> t, status |-> "success",
   output |-> [questions |-> <<>>, plan |-> p]]

\* the persisted state: create_project with settings s, then plan draft p
RestartState(s, p) ==
  LET created == transitionState(createProjectState(0, <<>>),
                   [type |-> "create_project", settings |-> s], 1, 0)
  IN transitionState(created.newState, PlanResult(1, p), 2, created.uuid).newState

InitExec ==
  /\ \E s \in SettingsInputs, p \in ExecPlanIds : state = RestartState(s, p)
  /\ loaded = TRUE
  /\ effects = <<>>
  /\ intent = NoIntent
  /\ clock = 2
  /\ uuid = 1
  /\ projects = 1
  /\ consumed = {}
  /\ store = JsonStateStore_save(state)
  /\ calls = [c \in 1..MaxCalls |-> IdleCall]
  /\ instances = 1
  /\ logic = NoLogic
  /\ awaited = {}

HandleExec(i) == HandleUpTo(i, 2 + MaxExecSteps)

ExecAgentResult ==
  \E t \in TaskIds(state) :
    IF FindTask(state.pendingTasks, t).type = "planning"
    THEN \E p \in ExecPlanIds : HandleExec(PlanResult(t, p))
    ELSE \E st \in {"success", "failure"} :
           HandleExec([type |-> "agent_result", taskId |-> t, status |-> st,
                       output |-> NoOutput])

ExecApprovePlan ==
  \E i \in 1..Len(state.approvals) :
    /\ state.approvals[i].type = "plan"
    /\ HandleExec([type |-> "approve_plan", approvalId |-> state.approvals[i].id,
                   planId |-> state.approvals[i].planId])

ExecApproveExecution ==
  \E a \in ApprovalIds(state) :
    HandleExec([type |-> "approve_execution", approvalId |-> a])

ExecRunTasks ==
  /\ loaded
  /\ HandleExec([type |-> "run_tasks", taskIds |-> <<>>])

\* the taskIds a retry_tasks payload may carry: none, or, once a task has
\* failed, the id of one task (failed or not, planning or execution) or an
\* id no task has
RetryInputs(s) ==
  {<<>>} \cup IF Len(getFailedTaskIds(s.pendingTasks)) > 0
              THEN { <<t>> : t \in TaskIds(s) \cup {0} }
              ELSE {}

ExecRetryTasks ==
  /\ loaded
  /\ \E ids \in RetryInputs(state) :
       HandleExec([type |-> "retry_tasks", taskIds |-> ids])

NextExec ==
  \/ ExecAgentResult
  \/ ExecApprovePlan
  \/ ExecApproveExecution
  \/ ExecRunTasks
  \/ ExecRetryTasks

SpecExec == InitExec /\ [][NextExec]_vars


\* ================================================== a later plan is approved
\* The persisted state of InitExec, then planning again: replan or add_feature
\* synthesize a planning task, whose result may carry any plan draft, the one
\* without tasks included, and the approvals are granted.
LaterReplan ==
  /\ loaded
  /\ HandleExec([type |-> "replan"])

LaterAddFeature ==
  /\ loaded
  /\ HandleExec([type |-> "add_feature"])

\* every outstanding task is answered once
LaterAgentResult ==
  \E t \in TaskIds(state) :
    IF FindTask(state.pendingTasks, t).type = "planning"
    THEN /\ FindTask(state.pendingTasks, t).status = "pending"
         /\ \E p \in PlanIds : HandleExec(PlanResult(t, p))
    ELSE /\ FindTask(state.pendingTasks, t).status = "pending"
         /\ \E st \in {"success", "failure"} :
              HandleExec([type |-> "agent_result", taskId |-> t, status |-> st,
                          output |-> NoOutput])

NextLater ==
  \/ ExecApprovePlan
  \/ ExecApproveExecution
  \/ LaterReplan
  \/ LaterAddFeature
  \/ LaterAgentResult

SpecLater == InitExec /\ [][NextLater]_vars


\* ====================================================== recovery by retry
\* The persisted state of InitExec, the plan is approved and executed, and
\* failed tasks are retried. The agents answer the dispatch_agent_task
\* effects they were handed, each once, and nothing else; the approvals
\* asked for are granted.
\* every behaviour of SpecRecover has at most this many transitions: the two
\* approvals and a result per task, then per retry the retry, its approval
\* and a result per task
HandleRecover(i) == HandleUpTo(i, 2 + (2 + 2) + MaxRetries * (2 + 2))

RecoverApprovePlan ==
  \E i \in 1..Len(state.approvals) :
    /\ state.approvals[i].type = "plan"
    /\ HandleRecover([type |-> "approve_plan", approvalId |-> state.approvals[i].id,
                      planId |-> state.approvals[i].planId])

RecoverApproveExecution ==
  \E a \in ApprovalIds(state) :
    /\ IsExecutionApproval(FindApproval(state.approvals, a))
    /\ HandleRecover([type |-> "approve_execution", approvalId |-> a])

\* the agent that was handed task t reports its result
RecoverAgentResult ==
  \E t \in awaited, st \in {"success", "failure"} :
    HandleRecover([type |-> "agent_result", taskId |-> t, status |-> st,
                   output |-> NoOutput])

\* retry_tasks for all failed tasks, sent when there is a failed task and
\* fewer than MaxRetries retry_tasks are recorded in the history
RecoverRetryTasks ==
  /\ Cardinality({ k \in 1..Len(state.history) :
                     state.history[k].intentType = "retry_tasks" }) < MaxRetries
  /\ Len(getFailedTaskIds(state.pendingTasks)) > 0
  /\ HandleRecover([type |-> "retry_tasks", taskIds |-> <<>>])

NextRecover ==
  \/ RecoverApprovePlan
  \/ RecoverApproveExecution
  \/ RecoverAgentResult
  \/ RecoverRetryTasks

\* every dispatched task is eventually answered and every execution approval
\* asked for is eventually granted
SpecRecover ==
  /\ InitExec
  /\ [][NextRecover]_vars
  /\ WF_vars(RecoverAgentResult)
  /\ WF_vars(RecoverApproveExecution)


\* ============================================================ planning loop
\* The planning lifecycle alone: the project is created, the planner answers
\* its planning tasks with any output, the user answers clarifications,
\* finalizes the scope or asks for a replan.
HandlePlan(i) == HandleUpTo(i, MaxPlanSteps)

\* the payload carries no context (NoContext) or a ProjectContext (1)
PlanCreateProject ==
  /\ ~loaded
  /\ \E s \in SettingsInputs, c \in {NoContext, 1} :
       HandlePlan([type |-> "create_project", settings |-> s, context |-> c])

PlanAgentResult ==
  \E t \in TaskIds(state) :
    /\ FindTask(state.pendingTasks, t).type = "planning"
    /\ \/ HandlePlan([type |-> "agent_result", taskId |-> t, status |-> "failure",
                      output |-> NoOutput])
       \/ \E out \in PlannerOutputs \cup MixedOutputs :
            HandlePlan([type |-> "agent_result", taskId |-> t, status |-> "success",
                        output |-> out])

PlanRequestClarifications ==
  /\ loaded
  /\ HandlePlan([type |-> "request_clarifications", questions |-> <<1>>])

PlanAnswerClarifications ==
  \E c \in ClarificationIds(state) :
    HandlePlan([type |-> "answer_clarifications", clarificationId |-> c, answers |-> <<1>>])

PlanFinalizeScope ==
  /\ loaded
  /\ HandlePlan([type |-> "finalize_scope"])

PlanReplan ==
  /\ loaded
  /\ HandlePlan([type |-> "replan"])

NextPlan ==
  \/ PlanCreateProject
  \/ PlanAgentResult
  \/ PlanRequestClarifications
  \/ PlanAnswerClarifications
  \/ PlanFinalizeScope
  \/ PlanReplan

SpecPlan == Init /\ [][NextPlan]_vars

\* =========================================================== the facade
\* Orchestrator.handleIntent as the asynchronous function it is: a call runs
\* up to an await, other calls may start or resume while it is suspended.
\*   pc "effect"     suspended in dispatch, awaiting effect handler `next`
\*   pc "dispatched" suspended at `await this.dispatcher.dispatch(...)`, all
\*                   effect handlers have resolved
\*   pc "saving"     suspended at `await this.store.save(this.state)`
\*   pc "done" / "failed"  the promise of the call resolved / rejected
InFlight(c) == calls[c].pc \in {"effect", "dispatched", "saving"}

\* the last call started that is still in flight (0: none)
LastInFlight ==
  IF \E c \in 1..MaxCalls : InFlight(c)
  THEN CHOOSE c \in 1..MaxCalls : InFlight(c) /\ \A d \in 1..MaxCalls : InFlight(d) => d <= c
  ELSE 0

\* IntentDispatcher.computeTransition
computeTransition(s, i, now, u) == transitionState(s, i, now, u)

\* IntentDispatcher.dispatch, the method handleIntent awaits: it computes the
\* transition, executes its side effects in order (EffectResolves,
\* EffectRejects) and returns the transition result
dispatch(s, i, now, u) == computeTransition(s, i, now, u)

\* the intents the facade is driven with
OrchIntents ==
  { [type |-> "pause_execution"], [type |-> "add_feature"] }
    \cup { PlanResult(1, p) : p \in ExecPlanIds }
    \cup { [type |-> "approve_plan", approvalId |-> a, planId |-> a.planId] :
             a \in ApprovalIds(state) }

\* a handleIntent whose bootstrapState builds a state for any intent
StartCall_NoThrow(c, i) ==
  LET now == clock + 1
      r == dispatch(state, i, now, uuid)
  IN /\ calls[c].pc = "idle"
     /\ \A d \in 1..(c - 1) : calls[d].pc # "idle"
     /\ intent' = i
     /\ IF FALSE
        THEN \* bootstrapState throws
             /\ calls' = [calls EXCEPT ![c] = [@ EXCEPT !.pc = "failed", !.intent = i]]
             /\ UNCHANGED <<state, loaded, effects, clock, uuid, projects, consumed, store, instances, logic, awaited>>
        ELSE /\ calls' = [calls EXCEPT ![c] =
                  [ pc |-> IF Len(r.sideEffects) > 0 THEN "effect" ELSE "dispatched",
                    intent |-> i, preLoaded |-> loaded, pre |-> state,
                    newState |-> r.newState, sideEffects |-> r.sideEffects,
                    next |-> IF Len(r.sideEffects) > 0 THEN 1 ELSE 0,
                    saved |-> FALSE, pred |-> LastInFlight,
                    invoked |-> SubSeq(r.sideEffects, 1,
                                       IF Len(r.sideEffects) > 0 THEN 1 ELSE 0),
                    resolved |-> 0, rejected |-> 0, instance |-> instances ]]
             /\ effects' = r.sideEffects
             /\ clock' = now
             /\ uuid' = r.uuid
             /\ UNCHANGED <<state, loaded, projects, consumed, store, instances, logic, awaited>>

\* handleIntent(i) is called as call c and runs to its first await: it reads
\* this.state, and dispatch computes the transition and invokes the first
\* effect handler
StartCall(c, i) ==
  LET now == clock + 1
      r == dispatch(state, i, now, uuid)
  IN /\ calls[c].pc = "idle"
     /\ \A d \in 1..(c - 1) : calls[d].pc # "idle"
     /\ intent' = i
     /\ IF ~loaded /\ i.type # "create_project"
        THEN \* bootstrapState throws
             /\ calls' = [calls EXCEPT ![c] = [@ EXCEPT !.pc = "failed", !.intent = i]]
             /\ UNCHANGED <<state, loaded, effects, clock, uuid, projects, consumed, store, instances, logic, awaited>>
        ELSE /\ calls' = [calls EXCEPT ![c] =
                  [ pc |-> IF Len(r.sideEffects) > 0 THEN "effect" ELSE "dispatched",
                    intent |-> i, preLoaded |-> loaded, pre |-> state,
                    newState |-> r.newState, sideEffects |-> r.sideEffects,
                    next |-> IF Len(r.sideEffects) > 0 THEN 1 ELSE 0,
                    saved |-> FALSE, pred |-> LastInFlight,
                    invoked |-> SubSeq(r.sideEffects, 1,
                                       IF Len(r.sideEffects) > 0 THEN 1 ELSE 0),
                    resolved |-> 0, rejected |-> 0, instance |-> instances ]]
             /\ effects' = r.sideEffects
             /\ clock' = now
             /\ uuid' = r.uuid
             /\ UNCHANGED <<state, loaded, projects, consumed, store, instances, logic, awaited>>

OrchCreateProject ==
  /\ ~loaded
  /\ \A c \in 1..MaxCalls : ~InFlight(c)
  /\ \E c \in 1..MaxCalls : StartCall(c, [type |-> "create_project", settings |-> <<>>])

OrchHandleIntent ==
  \E c \in 1..MaxCalls, i \in OrchIntents : StartCall(c, i)

\* the effect handler awaited by call c resolves: executeSideEffects goes on
\* to the next effect, or dispatch returns
EffectResolves ==
  \E c \in 1..MaxCalls :
    /\ calls[c].pc = "effect"
    /\ calls' = [calls EXCEPT ![c] =
         IF @.next < Len(@.sideEffects)
         THEN [@ EXCEPT !.next = @ + 1, !.resolved = @ + 1,
                        !.invoked = Append(@, calls[c].sideEffects[calls[c].next + 1])]
         ELSE [@ EXCEPT !.pc = "dispatched", !.resolved = @ + 1]]
    /\ UNCHANGED <<state, loaded, effects, intent, clock, uuid, projects, consumed, store, instances, logic, awaited>>

\* a loop that catches the error of a handler and goes on with the next effect
EffectRejects_Swallowed ==
  \E c \in 1..MaxCalls :
    /\ calls[c].pc = "effect"
    /\ calls' = [calls EXCEPT ![c] =
         IF @.next < Len(@.sideEffects)
         THEN [@ EXCEPT !.next = @ + 1, !.rejected = calls[c].next,
                        !.invoked = Append(@, calls[c].sideEffects[calls[c].next + 1])]
         ELSE [@ EXCEPT !.pc = "dispatched", !.rejected = calls[c].next]]
    /\ UNCHANGED <<state, loaded, effects, intent, clock, uuid, projects, consumed, store, instances, logic, awaited>>

\* the effect handler awaited by call c rejects: the error leaves handleIntent
EffectRejects ==
  \E c \in 1..MaxCalls :
    /\ calls[c].pc = "effect"
    /\ calls' = [calls EXCEPT ![c] = [@ EXCEPT !.pc = "failed", !.rejected = calls[c].next]]
    /\ UNCHANGED <<state, loaded, effects, intent, clock, uuid, projects, consumed, store, instances, logic, awaited>>

\* call c resumes after dispatch: this.state = result.newState, save is called
AssignAndSave ==
  \E c \in 1..MaxCalls :
    /\ calls[c].pc = "dispatched"
    /\ state' = calls[c].newState
    /\ loaded' = TRUE
    /\ calls' = [calls EXCEPT ![c] = [@ EXCEPT !.pc = "saving"]]
    /\ UNCHANGED <<effects, intent, clock, uuid, projects, consumed, store, instances, logic, awaited>>

\* store.save of call c resolves: the file holds the state it was given
SaveResolves ==
  \E c \in 1..MaxCalls :
    /\ calls[c].pc = "saving"
    /\ store' = JsonStateStore_save(calls[c].newState)
    /\ calls' = [calls EXCEPT ![c] = [@ EXCEPT !.pc = "done", !.saved = TRUE]]
    /\ UNCHANGED <<state, loaded, effects, intent, clock, uuid, projects, consumed,
                   instances, logic, awaited>>

\* store.save of call c rejects: the error leaves handleIntent
SaveRejects ==
  \E c \in 1..MaxCalls :
    /\ calls[c].pc = "saving"
    /\ calls' = [calls EXCEPT ![c] = [@ EXCEPT !.pc = "failed"]]
    /\ UNCHANGED <<state, loaded, effects, intent, clock, uuid, projects, consumed, store, instances, logic, awaited>>

NextOrch ==
  \/ OrchCreateProject
  \/ OrchHandleIntent
  \/ EffectResolves
  \/ EffectRejects
  \/ AssignAndSave
  \/ SaveResolves
  \/ SaveRejects

SpecOrch == Init /\ [][NextOrch]_vars

\* ================================================================ restart
\* The process ends with no handleIntent in flight; a new Orchestrator is
\* constructed on the same store and handles intents one at a time.
\* a constructor that is not followed by initialize(): no state is loaded
Restart_NoLoad ==
  /\ instances <= MaxRestarts
  /\ \A c \in 1..MaxCalls : ~InFlight(c)
  /\ instances' = instances + 1
  /\ loaded' = FALSE
  /\ state' = createProjectState(0, <<>>)
  /\ UNCHANGED <<effects, intent, clock, uuid, projects, consumed, store, calls, logic, awaited>>

\* new Orchestrator(store, dispatcher) and initialize():
\* this.state = await this.store.load()
Restart ==
  /\ instances <= MaxRestarts
  /\ \A c \in 1..MaxCalls : ~InFlight(c)
  /\ instances' = instances + 1
  /\ loaded' = JsonStateStore_load(store).found
  /\ state' = JsonStateStore_load(store).state
  /\ UNCHANGED <<effects, intent, clock, uuid, projects, consumed, store, calls, logic, awaited>>

\* the intents the restarted facade is driven with: those of OrchIntents and
\* the results of the execution tasks
RestartIntents ==
  OrchIntents \cup
    { [type |-> "agent_result", taskId |-> t, status |-> st, output |-> NoOutput] :
        t \in { id \in TaskIds(state) : FindTask(state.pendingTasks, id).type = "execution" },
        st \in {"success", "failure"} }

\* handleIntent called while no other call is in flight
SequentialHandleIntent ==
  /\ \A c \in 1..MaxCalls : ~InFlight(c)
  /\ \E c \in 1..MaxCalls, i \in RestartIntents : StartCall(c, i)

NextRestart ==
  \/ OrchCreateProject
  \/ SequentialHandleIntent
  \/ EffectResolves
  \/ EffectRejects
  \/ AssignAndSave
  \/ SaveResolves
  \/ SaveRejects
  \/ Restart

SpecRestart == Init /\ [][NextRestart]_vars

\* ======================================================= the planning logic
\* checkReadiness and getPromptForInput applied to a PlanningInput
InitReady ==
  /\ state = createProjectState(0, <<>>)
  /\ loaded = FALSE
  /\ effects = <<>>
  /\ intent = NoIntent
  /\ clock = 0
  /\ uuid = 0
  /\ projects = 0
  /\ consumed = {}
  /\ store = EmptyStore
  /\ calls = [c \in 1..MaxCalls |-> IdleCall]
  /\ instances = 1
  /\ \E i \in PlanningInputs : logic = [NoLogic EXCEPT !.pc = "input", !.input = i]
  /\ awaited = {}

CheckReadiness ==
  /\ logic.pc = "input"
  /\ logic' = [logic EXCEPT !.pc = "checked", !.readiness = checkReadiness(logic.input)]
  /\ UNCHANGED <<state, loaded, effects, intent, clock, uuid, projects, consumed, store,
                 calls, instances, awaited>>

GetPromptForInput ==
  /\ logic.pc = "checked"
  /\ logic' = [logic EXCEPT !.pc = "prompted",
                            !.ready = isReadyToPlan(logic.input),
                            !.prompt = getPromptForInput(logic.input, logic.options)]
  /\ UNCHANGED <<state, loaded, effects, intent, clock, uuid, projects, consumed, store,
                 calls, instances, awaited>>

NextReady ==
  \/ CheckReadiness
  \/ GetPromptForInput

SpecReady == InitReady /\ [][NextReady]_vars

\* runPlanningLogic as the asynchronous function it is
\*   pc "first"    suspended at the first `await adapter.completeJson(prompt)`
\*   pc "retry"    suspended at `await adapter.completeJson(strictPrompt)`
\*   pc "done" / "rejected"  the promise resolved with a result / rejected
InitPlanner ==
  /\ state = createProjectState(0, <<>>)
  /\ loaded = FALSE
  /\ effects = <<>>
  /\ intent = NoIntent
  /\ clock = 0
  /\ uuid = 0
  /\ projects = 0
  /\ consumed = {}
  /\ store = EmptyStore
  /\ calls = [c \in 1..MaxCalls |-> IdleCall]
  /\ instances = 1
  /\ \E i \in PlannerInputs :
       \E o \in PlannerOptions(i) :
         logic = [NoLogic EXCEPT !.pc = "input", !.input = i, !.options = o]
  /\ awaited = {}

\* runPlanningLogic is called: it builds the prompt and invokes the planner
RunPlanningLogic ==
  /\ logic.pc = "input"
  /\ LET prompt == getPromptForInput(logic.input, logic.options)
     IN logic' = [logic EXCEPT !.pc = "first",
                               !.ready = isReadyToPlan(logic.input),
                               !.prompt = prompt,
                               !.prompts = <<prompt>>]
  /\ UNCHANGED <<state, loaded, effects, intent, clock, uuid, projects, consumed, store,
                 calls, instances, awaited>>

\* the first completeJson resolves: the response is parsed, and on a parse
\* failure the planner is invoked again with the strict prompt
FirstResponse ==
  /\ logic.pc = "first"
  /\ \E raw \in RawResponses :
       LET firstParse == planner_parsePlanningOutput(raw)
       IN logic' =
            IF firstParse.success
            THEN [logic EXCEPT !.pc = "done",
                               !.responses = Append(@, raw),
                               !.parses = Append(@, firstParse),
                               !.result = [defined |-> TRUE, success |-> TRUE,
                                           output |-> firstParse.output,
                                           retried |-> FALSE, error |-> ""]]
            ELSE [logic EXCEPT !.pc = "retry",
                               !.responses = Append(@, raw),
                               !.parses = Append(@, firstParse),
                               !.prompts = Append(@, buildStrictJsonPrompt(logic.prompt))]
  /\ UNCHANGED <<state, loaded, effects, intent, clock, uuid, projects, consumed, store,
                 calls, instances, awaited>>

\* the second completeJson resolves: its parse decides the result
RetryResponse ==
  /\ logic.pc = "retry"
  /\ \E raw \in RawResponses :
       LET retryParse == planner_parsePlanningOutput(raw)
       IN logic' = [logic EXCEPT !.pc = "done",
                                 !.responses = Append(@, raw),
                                 !.parses = Append(@, retryParse),
                                 !.result = [defined |-> TRUE,
                                             success |-> retryParse.success,
                                             output |-> retryParse.output,
                                             retried |-> TRUE,
                                             error |-> retryParse.error]]
  /\ UNCHANGED <<state, loaded, effects, intent, clock, uuid, projects, consumed, store,
                 calls, instances, awaited>>

\* the awaited completeJson rejects: the error leaves runPlanningLogic
CompleteJsonRejects ==
  /\ logic.pc \in {"first", "retry"}
  /\ logic' = [logic EXCEPT !.pc = "rejected"]
  /\ UNCHANGED <<state, loaded, effects, intent, clock, uuid, projects, consumed, store,
                 calls, instances, awaited>>

NextPlanner ==
  \/ RunPlanningLogic
  \/ FirstResponse
  \/ RetryResponse
  \/ CompleteJsonRejects

SpecPlanner == InitPlanner /\ [][NextPlanner]_vars


\* ==================================================================== claims
LastOf(seq) == seq[Len(seq)]

IsPrefix(a, b) == Len(a) <= Len(b) /\ \A k \in 1..Len(a) : a[k] = b[k]

\* the retry_tasks intent just handled selected no failed execution task
RetrySelectsNone == intent'.type = "retry_tasks" /\ Len(RetrySelection(state, intent'.taskIds)) = 0

ExecutionApproved(id) ==
  \E a \in consumed : IsExecutionApproval(a) /\ Includes(a.taskIds, id)

\* C2 (as claimed): with requireExecutionApproval no execution task gets
\* dispatchedAt, and no dispatch_agent_task effect is emitted for it, unless
\* approve_execution consumed an execution approval listing that task; with
\* requireRetryApproval a retry_tasks intent itself dispatches nothing.
C2_Original ==
  /\ state.settings.requireExecutionApproval =>
       /\ \A k \in 1..Len(state.pendingTasks) :
            LET t == state.pendingTasks[k]
            IN (IsExecution(t) /\ t.dispatchedAt # 0) => ExecutionApproved(t.id)
       /\ \A k \in 1..Len(effects) :
            (effects[k].type = "dispatch_agent_task" /\ IsExecution(effects[k].task))
              => ExecutionApproved(effects[k].task.id)
  /\ state.settings.requireRetryApproval =>
       (intent.type = "retry_tasks" =>
          \A k \in 1..Len(effects) : effects[k].type # "dispatch_agent_task")


\* ids of the approvals consumed so far
ConsumedIds == { a.id : a \in consumed }

\* C3 (as claimed): an accepted approve_plan / approve_execution removes
\* exactly the named approval, and any later approve_plan / approve_execution
\* naming an approvalId already consumed goes to phase error, creates no
\* tasks and emits no effects.
C3_Original ==
  [][ /\ AcceptsApproval(state, intent') =>
           /\ CountSeq(state.approvals, LAMBDA a : a.id = intent'.approvalId) = 1
           /\ ~HasApproval(state'.approvals, intent'.approvalId)
           /\ IsPrefix(RemoveApproval(state.approvals, intent'.approvalId),
                       state'.approvals)
      /\ ( /\ intent'.type \in {"approve_plan", "approve_execution"}
           /\ intent'.approvalId \in ConsumedIds )
         => /\ state'.phase = "error"
            /\ state'.pendingTasks = state.pendingTasks
            /\ effects' = <<>> ]_vars


\* effs is exactly one dispatch_agent_task effect per task id of ids, in order
DispatchesExactly(effs, ids) ==
  /\ Len(effs) = Len(ids)
  /\ \A k \in 1..Len(ids) :
       effs[k].type = "dispatch_agent_task" /\ effs[k].task.id = ids[k]

\* C7 (as claimed): retry_tasks with requireRetryApproval = false and at
\* least one selected failed execution task resets the selected tasks to
\* pending, purges their results, emits exactly one dispatch_agent_task effect
\* per selected task and sets phase executing.
C7_Original ==
  [][ ( /\ intent'.type = "retry_tasks"
        /\ ~state.settings.requireRetryApproval
        /\ Len(RetrySelection(state, intent'.taskIds)) > 0 )
      => LET selected == RetrySelection(state, intent'.taskIds)
         IN /\ \A k \in 1..Len(selected) :
                 /\ FindTask(state'.pendingTasks, selected[k]).status = "pending"
                 /\ selected[k] \notin DOMAIN state'.execution.results
            /\ DispatchesExactly(effects', selected)
            /\ state'.phase = "executing" ]_vars

\* every task listed by the approval is a pending task of state s
AllPending(s, approval) ==
  \A k \in 1..Len(approval.taskIds) :
    /\ HasTask(s.pendingTasks, approval.taskIds[k])
    /\ FindTask(s.pendingTasks, approval.taskIds[k]).status = "pending"

\* C8 (as claimed): approve_execution naming a pending execution_start or
\* execution_retry approval consumes it, sets phase executing and emits
\* exactly one dispatch_agent_task effect for every task id of the approval
\* (stated for approvals whose tasks are all still pending, as the tasks that
\* retry_tasks reset are).
C8_Original ==
  [][ ( /\ intent'.type = "approve_execution"
        /\ AcceptsApproval(state, intent')
        /\ AllPending(state, FindApproval(state.approvals, intent'.approvalId)) )
      => LET approval == FindApproval(state.approvals, intent'.approvalId)
         IN /\ ~HasApproval(state'.approvals, intent'.approvalId)
            /\ state'.phase = "executing"
            /\ DispatchesExactly(effects', approval.taskIds) ]_vars

\* C9 (as claimed): every execution task with status completed or failed has
\* an entry in execution.results with the matching status.
C9_Original ==
  \A k \in 1..Len(state.pendingTasks) :
    LET t == state.pendingTasks[k]
    IN (IsExecution(t) /\ t.status \in {"completed", "failed"})
         => /\ state.execution.defined
            /\ t.id \in DOMAIN state.execution.results
            /\ StatusOf(state.execution.results[t.id]) = t.status

\* C10 (as claimed): an agent_result fed a second time, when the task's status
\* is already terminal, leaves the state unchanged (stated here for the
\* tasks, approvals, clarifications, plans, execution state and phase only,
\* leaving aside version, updatedAt, history and discussion).
C10_Original ==
  [][ ( /\ intent'.type = "agent_result"
        /\ intent' = intent
        /\ HasTask(state.pendingTasks, intent.taskId)
        /\ FindTask(state.pendingTasks, intent.taskId).status = StatusOf(intent.status) )
      => /\ state'.pendingTasks = state.pendingTasks
         /\ state'.approvals = state.approvals
         /\ state'.clarifications = state.clarifications
         /\ state'.plans = state.plans
         /\ state'.currentPlanId = state.currentPlanId
         /\ state'.execution = state.execution
         /\ state'.phase = state.phase
         /\ effects' = <<>> ]_vars


\* C4 (as claimed): in handleIntent the new state is written to the store
\* before any side effect of the transition is invoked: a call whose first
\* effect handler has been invoked has completed its store.save.
C4_Original ==
  \A c \in 1..MaxCalls : calls[c].next >= 1 => calls[c].saved

\* C5 (as claimed): intents are serialized: a call issued while another call
\* is in flight computes its transition from the state that call produces,
\* and when all calls have completed the version reflects every intent.
C5_Original ==
  /\ \A d \in 1..MaxCalls :
       calls[d].pred # 0 =>
         /\ calls[d].preLoaded
         /\ calls[d].pre = calls[calls[d].pred].newState
  /\ (\A c \in 1..MaxCalls : calls[c].pc = "done") => state.version = MaxCalls

\* C6 (as claimed): when store.save fails the intent is not applied: the
\* in-memory state is again the one from before the call.
C6_Original ==
  [][ \A c \in 1..MaxCalls :
        (calls[c].pc = "saving" /\ calls'[c].pc = "failed")
          => /\ loaded' = calls[c].preLoaded
             /\ state' = calls[c].pre ]_vars

\* the execution tasks of pendingTasks, in order
ExecutionTasksOf(s) == SelectSeq(s.pendingTasks, IsExecution)

\* C11: whenever execution is defined, summary.total is the number of
\* execution tasks in pendingTasks, summary.completed and summary.failed are
\* the numbers of execution tasks with those statuses, completed + failed +
\* inProgress <= total, and failures lists exactly the failed execution tasks.
C11_ExecutionDerived ==
  state.execution.defined =>
    LET ex == ExecutionTasksOf(state)
        summary == state.execution.summary
        failedIds == { ex[k].id : k \in { j \in 1..Len(ex) : ex[j].status = "failed" } }
    IN /\ summary.total = Len(ex)
       /\ summary.completed = Cardinality({ k \in 1..Len(ex) : ex[k].status = "completed" })
       /\ summary.failed = Cardinality({ k \in 1..Len(ex) : ex[k].status = "failed" })
       /\ summary.completed + summary.failed + summary.inProgress <= summary.total
       /\ Range(state.execution.failures) = failedIds
       /\ Len(state.execution.failures) = Cardinality(failedIds)

\* two execution tasks, one completed and one failed, and the failure listed
C11_Witness ==
  /\ state.execution.defined
  /\ state.execution.summary = [total |-> 2, completed |-> 1, failed |-> 1, inProgress |-> 0]
  /\ Len(state.execution.failures) = 1
  /\ intent.type = "agent_result"

\* C12: currentPlanId (when set), the planId of every approval (when set) and
\* the planId of every execution task is a key of plans.
C12_PlanIdsResolve ==
  /\ state.currentPlanId # 0 => state.currentPlanId \in DOMAIN state.plans
  /\ \A k \in 1..Len(state.approvals) :
       state.approvals[k].planId # 0 => state.approvals[k].planId \in DOMAIN state.plans
  /\ \A k \in 1..Len(state.pendingTasks) :
       IsExecution(state.pendingTasks[k]) =>
         state.pendingTasks[k].planId \in DOMAIN state.plans

\* a retry approval, a plan approval and execution tasks coexist, all naming
\* stored plans
C12_Witness ==
  /\ state.currentPlanId \in DOMAIN state.plans
  /\ \E k \in 1..Len(state.approvals) :
       state.approvals[k].type = "execution_retry" /\ state.approvals[k].planId # 0
  /\ \E k \in 1..Len(state.approvals) : state.approvals[k].type = "plan"
  /\ Len(ExecutionTasksOf(state)) > 0

\* C13: once a task's dispatchedAt is set it never changes: every transition
\* that keeps the task (retry_tasks, run_tasks and approve_execution
\* included) leaves its dispatchedAt as it was.
C13_DispatchedAtStable ==
  [][ \A k \in 1..Len(state.pendingTasks) :
        LET t == state.pendingTasks[k]
        IN (t.dispatchedAt # 0 /\ HasTask(state'.pendingTasks, t.id))
             => FindTask(state'.pendingTasks, t.id).dispatchedAt = t.dispatchedAt ]_vars

\* a retry_tasks has reset a task that was dispatched earlier: it is pending
\* again and still carries the old dispatchedAt
C13_Witness ==
  /\ intent.type = "retry_tasks"
  /\ LastOf(state.history).intentType = "retry_tasks"
  /\ \E k \in 1..Len(state.pendingTasks) :
       LET t == state.pendingTasks[k]
       IN /\ IsExecution(t)
          /\ t.status = "pending"
          /\ t.dispatchedAt # 0
          /\ t.dispatchedAt < state.updatedAt

\* the ids of the tasks of pendingTasks, in order
TaskIdSeq(s) == [ k \in 1..Len(s.pendingTasks) |-> s.pendingTasks[k].id ]

\* C14 (as claimed): for every intent applied to a loaded state, a
\* create_project issued when a project is already loaded included, the old
\* history and discussion are prefixes of the new ones, the old sequence of
\* pendingTasks ids is a prefix of the new one, and version does not decrease.
C14_Original ==
  [][ loaded =>
        /\ IsPrefix(state.history, state'.history)
        /\ IsPrefix(state.discussion, state'.discussion)
        /\ IsPrefix(TaskIdSeq(state), TaskIdSeq(state'))
        /\ state'.version >= state.version ]_vars

\* C15 (as claimed): after an accepted approve_plan for a plan whose tasks
\* list is empty the phase is completed.
C15_Original ==
  [][ ( /\ intent'.type = "approve_plan"
        /\ AcceptsApproval(state, intent')
        /\ Len(state.plans[intent'.planId].tasks) = 0 )
      => state'.phase = "completed" ]_vars

\* an approval of type execution_start or execution_retry is pending in s
ExecutionApprovalWaiting(s) ==
  \E k \in 1..Len(s.approvals) :
    s.approvals[k].type \in {"execution_start", "execution_retry"}

\* C16: run_tasks while an approval of type execution_start or
\* execution_retry is pending is rejected: the phase, pendingTasks and
\* approvals are unchanged, no effects are emitted, version increments by 1
\* and one system discussion entry is appended.
C16_RunTasksRejected ==
  [][ (intent'.type = "run_tasks" /\ ExecutionApprovalWaiting(state))
      => /\ state'.phase = state.phase
         /\ state'.pendingTasks = state.pendingTasks
         /\ state'.approvals = state.approvals
         /\ effects' = <<>>
         /\ state'.version = state.version + 1
         /\ Len(state'.discussion) = Len(state.discussion) + 1
         /\ IsPrefix(state.discussion, state'.discussion)
         /\ LastOf(state'.discussion).type = "system" ]_vars

\* a run_tasks has been rejected while a retry approval was pending and a
\* reset task waits for it
C16_Witness ==
  /\ intent.type = "run_tasks"
  /\ \E k \in 1..Len(state.approvals) : state.approvals[k].type = "execution_retry"
  /\ LastOf(state.discussion).type = "system"
  /\ LastOf(state.history).intentType = "run_tasks"
  /\ state.phase = "awaiting_execution_approval"
  /\ \E k \in 1..Len(state.pendingTasks) :
       IsExecution(state.pendingTasks[k]) /\ state.pendingTasks[k].status = "pending"

\* no failed execution task of s is selected by the taskIds ids (an empty ids
\* selects every failed execution task)
NoFailedSelected(s, ids) ==
  \A k \in 1..Len(s.pendingTasks) :
    LET t == s.pendingTasks[k]
    IN ~( /\ t.type = "execution"
          /\ t.status = "failed"
          /\ (Len(ids) = 0 \/ Includes(ids, t.id)) )

\* C17: retry_tasks with no failed execution task selected (none failed, or
\* the taskIds name only non-failed, planning or unknown tasks) returns the
\* identical state and an empty effect list.
C17_RetryNoOp ==
  [][ (intent'.type = "retry_tasks" /\ NoFailedSelected(state, intent'.taskIds))
      => state' = state /\ effects' = <<>> ]_vars

\* a retry_tasks naming a completed execution task was handled while another
\* execution task is failed: nothing was recorded
C17_Witness ==
  /\ intent.type = "retry_tasks"
  /\ Len(intent.taskIds) = 1
  /\ HasTask(state.pendingTasks, intent.taskIds[1])
  /\ FindTask(state.pendingTasks, intent.taskIds[1]).status = "completed"
  /\ Len(getFailedTaskIds(state.pendingTasks)) > 0
  /\ LastOf(state.history).intentType = "agent_result"
  /\ effects = <<>>

\* C18: after an agent_result for a known execution task the phase is
\* completed if all execution tasks are completed; else error if at least
\* one execution task is failed and none is pending; otherwise unchanged.
C18_ExecutionResultPhase ==
  [][ ( /\ intent'.type = "agent_result"
        /\ HasTask(state.pendingTasks, intent'.taskId)
        /\ FindTask(state.pendingTasks, intent'.taskId).type = "execution" )
      => LET ex == ExecutionTasksOf(state')
             allCompleted == \A k \in 1..Len(ex) : ex[k].status = "completed"
             someFailed   == \E k \in 1..Len(ex) : ex[k].status = "failed"
             somePending  == \E k \in 1..Len(ex) : ex[k].status = "pending"
         IN state'.phase = IF allCompleted THEN "completed"
                           ELSE IF someFailed /\ ~somePending THEN "error"
                           ELSE state.phase ]_vars

\* of two execution tasks one has just failed and the other is still
\* pending: the phase is still executing
C18_Witness ==
  /\ intent.type = "agent_result"
  /\ intent.status = "failure"
  /\ state.phase = "executing"
  /\ Len(ExecutionTasksOf(state)) = 2
  /\ \E k \in 1..Len(state.pendingTasks) :
       state.pendingTasks[k].id = intent.taskId /\ state.pendingTasks[k].status = "failed"
  /\ \E k \in 1..Len(state.pendingTasks) :
       IsExecution(state.pendingTasks[k]) /\ state.pendingTasks[k].status = "pending"

\* the raw output carries at least one question (a string entry of its
\* questions array)
HasQuestions(output) == \E k \in 1..Len(output.questions) : output.questions[k] # 0

C20_Original ==
  [][ ( /\ intent'.type = "agent_result"
        /\ intent'.output.plan \in DOMAIN state.plans )
      => /\ intent'.output.plan \in DOMAIN state'.plans
         /\ state'.plans[intent'.output.plan] = state.plans[intent'.output.plan] ]_vars

\* what an accepted approve_plan does apart from the phase it reaches without
\* execution approval: the tasks, approvals, currentPlanId and effects
PlanApprovalOutcome(s, i, t, effs, directPhase) ==
  LET plan   == s.plans[i.planId]
      n      == Len(plan.tasks)
      before == Len(s.pendingTasks)
      newIds == [ k \in 1..n |-> t.pendingTasks[before + k].id ]
      others == RemoveApproval(s.approvals, i.approvalId)
  IN /\ ~HasApproval(t.approvals, i.approvalId)
     /\ Len(t.pendingTasks) = before + n
     /\ IsPrefix(s.pendingTasks, t.pendingTasks)
     /\ \A k \in 1..n :
          LET task == t.pendingTasks[before + k]
          IN /\ task.type = "execution"
             /\ task.status = "pending"
             /\ task.definitionId = plan.tasks[k]
             /\ ~HasTask(s.pendingTasks, task.id)
     /\ t.currentPlanId = plan.id
     /\ IF s.settings.requireExecutionApproval
        THEN /\ Len(t.approvals) = Len(others) + 1
             /\ IsPrefix(others, t.approvals)
             /\ LastOf(t.approvals).type = "execution_start"
             /\ LastOf(t.approvals).taskIds = newIds
             /\ t.phase = "awaiting_execution_approval"
             /\ effs = << [type |-> "request_approval", approval |-> LastOf(t.approvals)] >>
        ELSE /\ t.approvals = others
             /\ \A k \in 1..n : t.pendingTasks[before + k].dispatchedAt = t.updatedAt
             /\ t.phase = directPhase
             /\ DispatchesExactly(effs, newIds)

\* C21 (as claimed): an accepted approve_plan removes the plan approval,
\* appends one pending execution task per ExecutionTaskDef of the plan and
\* sets currentPlanId; with requireExecutionApproval it adds one
\* execution_start approval for exactly the new tasks, sets phase
\* awaiting_execution_approval and emits one request_approval; otherwise it
\* marks every new task dispatched, sets phase executing and emits one
\* dispatch_agent_task per new task.
C21_Original ==
  [][ (intent'.type = "approve_plan" /\ AcceptsApproval(state, intent'))
      => PlanApprovalOutcome(state, intent', state', effects', "executing") ]_vars

\* C21 (amended): as C21, except that without execution approval the phase
\* is completed when the plan has no tasks and executing otherwise.
C21_Amended ==
  [][ (intent'.type = "approve_plan" /\ AcceptsApproval(state, intent'))
      => PlanApprovalOutcome(state, intent', state', effects',
           IF Len(state.plans[intent'.planId].tasks) = 0
           THEN "completed" ELSE "executing") ]_vars

\* a plan without tasks has been approved without execution approval: the
\* project is completed, nothing was dispatched
C21_Witness ==
  /\ intent.type = "approve_plan"
  /\ LastOf(state.history).intentType = "approve_plan"
  /\ ~state.settings.requireExecutionApproval
  /\ state.currentPlanId = intent.planId
  /\ Len(state.plans[intent.planId].tasks) = 0
  /\ state.phase = "completed"
  /\ effects = <<>>

\* C22: create_project with no loaded state yields phase planning, version
\* 1, a single history record idle -> planning, settings equal to the
\* defaults (requireExecutionApproval false, requireRetryApproval true)
\* overridden by the payload's settings, exactly one planning task of stage
\* clarification with dispatchedAt = now, and exactly one dispatch_agent_task
\* effect for that task.
C22_CreateProject ==
  [][ (~loaded /\ intent'.type = "create_project")
      => LET payload == intent'.settings
         IN /\ state'.phase = "planning"
            /\ state'.version = 1
            /\ Len(state'.history) = 1
            /\ state'.history[1].from = "idle"
            /\ state'.history[1].to = "planning"
            /\ state'.history[1].intentType = "create_project"
            /\ state'.settings.requireExecutionApproval =
                 IF "requireExecutionApproval" \in DOMAIN payload
                 THEN payload.requireExecutionApproval ELSE FALSE
            /\ state'.settings.requireRetryApproval =
                 IF "requireRetryApproval" \in DOMAIN payload
                 THEN payload.requireRetryApproval ELSE TRUE
            /\ Len(state'.pendingTasks) = 1
            /\ state'.pendingTasks[1].type = "planning"
            /\ state'.pendingTasks[1].stage = "clarification"
            /\ state'.pendingTasks[1].status = "pending"
            /\ state'.pendingTasks[1].dispatchedAt = clock'
            /\ state'.updatedAt = clock'
            /\ effects' = << [type |-> "dispatch_agent_task", task |-> state'.pendingTasks[1]] >>
     ]_vars

\* a project has just been created with a payload that overrides one setting
C22_Witness ==
  /\ loaded
  /\ intent.type = "create_project"
  /\ intent.settings = [requireRetryApproval |-> FALSE]
  /\ state.version = 1
  /\ state.settings = [requireExecutionApproval |-> FALSE, requireRetryApproval |-> FALSE]
  /\ Len(effects) = 1

\* intent i fails a precondition in state s: an approve_plan or
\* approve_execution whose approval id is unknown or of the wrong type, an
\* approve_plan whose plan id does not match, an answer_clarifications with
\* an unknown clarification id, an agent_result with an unknown task id
PreconditionFails(s, i) ==
  \/ i.type \in {"approve_plan", "approve_execution"} /\ ~AcceptsApproval(s, i)
  \/ i.type = "answer_clarifications" /\ i.clarificationId \notin ClarificationIds(s)
  \/ i.type = "agent_result" /\ i.taskId \notin TaskIds(s)

\* C23: every intent precondition failure transitions to phase error,
\* appends one system discussion entry, emits no effects and leaves
\* pendingTasks, approvals, plans, clarifications, currentPlanId and
\* execution unchanged.
C23_PreconditionFailure ==
  [][ (loaded /\ PreconditionFails(state, intent'))
      => /\ state'.phase = "error"
         /\ Len(state'.discussion) = Len(state.discussion) + 1
         /\ IsPrefix(state.discussion, state'.discussion)
         /\ LastOf(state'.discussion).type = "system"
         /\ effects' = <<>>
         /\ state'.pendingTasks = state.pendingTasks
         /\ state'.approvals = state.approvals
         /\ state'.plans = state.plans
         /\ state'.clarifications = state.clarifications
         /\ state'.currentPlanId = state.currentPlanId
         /\ state'.execution = state.execution ]_vars

\* an approve_execution naming a pending plan approval has failed: the
\* approval is still there and the phase is error
C23_Witness ==
  /\ intent.type = "approve_execution"
  /\ HasApproval(state.approvals, intent.approvalId)
  /\ FindApproval(state.approvals, intent.approvalId).type = "plan"
  /\ state.phase = "error"
  /\ LastOf(state.history).intentType = "approve_execution"
  /\ LastOf(state.discussion).message = "Execution approval mismatch"

\* C24: handleIntent with no state loaded and an intent other than
\* create_project fails immediately: the call rejects, nothing is written to
\* the store, no effect handler is invoked and getState() stays null.
C24_NoStateFails ==
  [][ \A c \in 1..MaxCalls :
        ( /\ calls[c].pc = "idle"
          /\ calls'[c].pc # "idle"
          /\ ~loaded
          /\ calls'[c].intent.type # "create_project" )
        => /\ calls'[c].pc = "failed"
           /\ calls'[c].next = 0
           /\ ~calls'[c].saved
           /\ store' = store
           /\ effects' = effects
           /\ ~loaded'
           /\ state' = state ]_vars

\* an add_feature was issued before any project existed: the call failed,
\* no state is loaded and the store is empty
C24_Witness ==
  /\ ~loaded
  /\ ~store.saved
  /\ \E c \in 1..MaxCalls :
       /\ calls[c].pc = "failed"
       /\ calls[c].intent.type = "add_feature"
       /\ calls[c].next = 0

\* C25: the dispatcher executes the effects of one transition in list
\* order, awaiting each before the next: the handlers invoked so far are a
\* prefix of the effect list, at most one more than have resolved; and when
\* the handler of effect i fails, no later effect is invoked and the call
\* fails.
C25_EffectsInOrder ==
  \A c \in 1..MaxCalls :
    /\ IsPrefix(calls[c].invoked, calls[c].sideEffects)
    /\ Len(calls[c].invoked) <= calls[c].resolved + 1
    /\ calls[c].rejected # 0 =>
         /\ calls[c].pc = "failed"
         /\ Len(calls[c].invoked) = calls[c].rejected
         /\ calls[c].resolved = calls[c].rejected - 1

\* of two dispatch effects the first resolved and the second failed: both
\* were invoked, in order, and the call failed
C25_Witness ==
  \E c \in 1..MaxCalls :
    /\ Len(calls[c].sideEffects) = 2
    /\ calls[c].invoked = calls[c].sideEffects
    /\ calls[c].resolved = 1
    /\ calls[c].rejected = 2
    /\ calls[c].pc = "failed"

\* C26: runPlanningLogic invokes the planner once with the domain prompt; it
\* invokes it a second time, with the original prompt suffixed by the
\* strict-JSON reminder, if and only if parsing the first response fails; it
\* never invokes it more than twice; the result is a failure if and only if
\* both parses fail, and retried is true exactly when the second invocation
\* happened.
C26_PlannerRetryPolicy ==
  LET n == Len(logic.prompts)
  IN /\ logic.pc \in {"first", "retry", "done", "rejected"} =>
          /\ n >= 1
          /\ logic.prompts[1] = getPromptForInput(logic.input, logic.options)
     /\ n <= 2
     /\ n = 2 <=> (Len(logic.parses) >= 1 /\ ~logic.parses[1].success)
     /\ n = 2 => logic.prompts[2] = [logic.prompts[1] EXCEPT !.suffix = <<"strict_json">>]
     /\ logic.result.defined =>
          /\ ~logic.result.success <=>
               ( /\ Len(logic.parses) = 2
                 /\ ~logic.parses[1].success
                 /\ ~logic.parses[2].success )
          /\ logic.result.retried <=> n = 2

\* the first response held no JSON, the planner was invoked again with the
\* strict prompt and the second response parsed
C26_Witness ==
  /\ logic.pc = "done"
  /\ Len(logic.prompts) = 2
  /\ logic.responses[1].form = "garbage"
  /\ logic.result.success
  /\ logic.result.retried

\* C27: the planning-output parser accepts a decoded object only if it holds
\* exactly one of questions (a non-empty array of length at most 1) or plan:
\* an object with both, with neither, or with more than one question is a
\* failure, and a success result carries exactly one of questions or plan.
C27_ExactlyOneOf ==
  \A k \in DOMAIN logic.parses :
    LET decoded == logic.responses[k].value
        parse   == logic.parses[k]
        hasQuestions == decoded.questions.defined /\ Len(decoded.questions.value) > 0
        hasPlan      == decoded.plan.defined
    IN parse.success =>
         /\ decoded.type = "object"
         /\ hasQuestions # hasPlan
         /\ decoded.questions.defined => Len(decoded.questions.value) <= 1
         /\ parse.output.questions.defined # parse.output.plan.defined
         /\ parse.output.questions.defined <=> hasQuestions

\* a response holding a question and a valid plan was refused, and the
\* response to the strict prompt, a plan beside an empty questions array,
\* was accepted as a plan
C27_Witness ==
  /\ Len(logic.parses) = 2
  /\ logic.responses[1].value.questions.defined
  /\ Len(logic.responses[1].value.questions.value) = 1
  /\ logic.responses[1].value.plan.defined
  /\ PlanDraftSchema(logic.responses[1].value.plan.value)
  /\ ~logic.parses[1].success
  /\ logic.responses[2].value.questions.defined
  /\ logic.responses[2].value.plan.defined
  /\ logic.parses[2].success
  /\ logic.parses[2].output.plan.defined

\* C28 (as claimed): whenever the planning-output parser succeeds with
\* questions, the output holds exactly one non-empty question string; an
\* input whose single question is the empty string is rejected.
C28_Original ==
  \A k \in DOMAIN logic.parses :
    LET parse == logic.parses[k]
    IN (parse.success /\ parse.output.questions.defined) =>
         /\ Len(parse.output.questions.value) = 1
         /\ Len(parse.output.questions.value[1]) > 0

\* field of the context of input is present; a blank icp counts when
\* blankCounts
ContextHolds(input, field, blankCounts) ==
  /\ input.context.defined
  /\ input.context.value[field].defined
  /\ LET v == input.context.value[field].value
     IN IF field = "icp" /\ ~blankCounts THEN Len(trim(v)) > 0 ELSE Len(v) > 0

\* an answered or resolved clarification of input has a question/answer pair
\* with a non-empty answer that matches a keyword of field; when strict the
\* question must be non-empty and the answer non-blank too
ClarificationCovers(input, field, strict) ==
  \E k \in DOMAIN input.clarifications :
    LET record == input.clarifications[k]
    IN /\ record.status \in {"answered", "resolved"}
       /\ \E i \in DOMAIN record.questions \cap DOMAIN record.answers :
            /\ Len(record.answers[i]) > 0
            /\ \E keyword \in TopicKeywords[field] :
                 \/ includes(toLowerCase(record.questions[i]), keyword)
                 \/ includes(toLowerCase(record.answers[i]), keyword)
            /\ strict => /\ Len(record.questions[i]) > 0
                         /\ Len(trim(record.answers[i])) > 0

ReadyAsClaimed(input, strict) ==
  \/ input.stage = "final"
  \/ /\ hasNonEmptyString(input.goal)
     /\ \A field \in {"icp", "techStack", "constraints", "coreFeatures"} :
          \/ ContextHolds(input, field, ~strict)
          \/ ClarificationCovers(input, field, strict)

\* C29 (as claimed): isReadyToPlan(input) is true if and only if stage is
\* final, or goal is non-blank and each of icp, techStack, constraints,
\* coreFeatures is covered either by a non-empty field of context or by a
\* clarification with status answered or resolved whose question/answer pair
\* has a non-empty answer and matches a keyword of that field.
C29_Original ==
  logic.pc = "prompted" => (logic.ready <=> ReadyAsClaimed(logic.input, FALSE))

\* C29 (amended): as claimed, where the icp of context covers only when it
\* is non-blank, and a question/answer pair covers only when its question is
\* non-empty and its answer is non-blank.
C29_Amended ==
  logic.pc = "prompted" => (logic.ready <=> ReadyAsClaimed(logic.input, TRUE))

\* an input at the clarification stage was found ready with icp covered by
\* the question of an answered clarification alone
C29_Witness ==
  /\ logic.pc = "prompted"
  /\ logic.ready
  /\ logic.input.stage = "clarification"
  /\ ~ContextHolds(logic.input, "icp", TRUE)
  /\ Len(logic.input.clarifications) = 1
  /\ logic.input.clarifications[1].questions = << <<"Customer">> >>
  /\ logic.input.clarifications[1].answers = << <<"x">> >>
  /\ logic.prompt.template = "planning"

\* task t of state s is outstanding: present and still pending
Outstanding(s, t) ==
  HasTask(s.pendingTasks, t) /\ FindTask(s.pendingTasks, t).status = "pending"

OnePlanningTaskDispatched(stage) ==
  /\ Len(state'.pendingTasks) = Len(state.pendingTasks) + 1
  /\ IsPrefix(state.pendingTasks, state'.pendingTasks)
  /\ LastOf(state'.pendingTasks).type = "planning"
  /\ LastOf(state'.pendingTasks).stage = stage
  /\ LastOf(state'.pendingTasks).status = "pending"
  /\ LastOf(state'.pendingTasks).dispatchedAt = clock'
  /\ LastOf(state'.pendingTasks).id \notin TaskIds(state)
  /\ effects' = << [type |-> "dispatch_agent_task", task |-> LastOf(state'.pendingTasks)] >>

\* C31: answer_clarifications with a known clarificationId sets that record's
\* status to answered, stores the given answers and resolvedAt = now, leaves
\* every other clarification unchanged, appends exactly one planning task of
\* stage clarification with dispatchedAt = now, emits exactly one
\* dispatch_agent_task effect and sets phase planning.
C31_AnswerClarifications ==
  [][ ( /\ loaded
        /\ intent'.type = "answer_clarifications"
        /\ intent'.clarificationId \in ClarificationIds(state) )
      => /\ Cardinality({ k \in DOMAIN state.clarifications :
                            state.clarifications[k].id = intent'.clarificationId }) = 1
         /\ DOMAIN state'.clarifications = DOMAIN state.clarifications
         /\ \A k \in DOMAIN state.clarifications :
              state'.clarifications[k] =
                IF state.clarifications[k].id = intent'.clarificationId
                THEN [state.clarifications[k] EXCEPT !.status = "answered",
                                                     !.answers = intent'.answers,
                                                     !.resolvedAt = clock']
                ELSE state.clarifications[k]
         /\ OnePlanningTaskDispatched("clarification")
         /\ state'.phase = "planning"
    ]_vars

\* the first of two clarification records has just been answered and the
\* second one is still open
C31_Witness ==
  /\ intent.type = "answer_clarifications"
  /\ Len(state.clarifications) = 2
  /\ state.clarifications[1].id = intent.clarificationId
  /\ state.clarifications[1].status = "answered"
  /\ state.clarifications[1].resolvedAt = clock
  /\ state.clarifications[2].status = "open"
  /\ state.clarifications[2].resolvedAt = 0
  /\ state.phase = "planning"
  /\ Len(effects) = 1

\* C32: finalize_scope leaves no clarification unresolved: afterwards every
\* ClarificationRecord has status resolved with resolvedAt set (an existing
\* resolvedAt is preserved), exactly one planning task of stage final is
\* appended and dispatched with one dispatch_agent_task effect, and the phase
\* is planning.
C32_FinalizeScope ==
  [][ (loaded /\ intent'.type = "finalize_scope")
      => /\ DOMAIN state'.clarifications = DOMAIN state.clarifications
         /\ \A k \in DOMAIN state.clarifications :
              /\ state'.clarifications[k].status = "resolved"
              /\ state'.clarifications[k].resolvedAt # 0
              /\ state'.clarifications[k].resolvedAt =
                   IF state.clarifications[k].resolvedAt # 0
                   THEN state.clarifications[k].resolvedAt ELSE clock'
              /\ state'.clarifications[k].id = state.clarifications[k].id
              /\ state'.clarifications[k].answers = state.clarifications[k].answers
         /\ OnePlanningTaskDispatched("final")
         /\ state'.phase = "planning"
    ]_vars

\* the scope has just been finalized over a clarification that had been
\* answered earlier: it is resolved and keeps the time of its answer
C32_Witness ==
  /\ intent.type = "finalize_scope"
  /\ state.phase = "planning"
  /\ Len(state.clarifications) >= 1
  /\ state.clarifications[1].status = "resolved"
  /\ state.clarifications[1].answers = <<1>>
  /\ state.clarifications[1].resolvedAt # 0
  /\ state.clarifications[1].resolvedAt < clock
  /\ LastOf(state.pendingTasks).stage = "final"
  /\ LastOf(state.pendingTasks).dispatchedAt = clock

\* the positions of the tasks of s that an accepted run_tasks with taskIds
\* ids has to mark: the listed tasks, or every pending execution task when
\* none is listed, that are pending and not yet dispatched
RunTasksMarked(s, ids) ==
  { k \in 1..Len(s.pendingTasks) :
      LET t == s.pendingTasks[k]
      IN /\ IF Len(ids) > 0 THEN Includes(ids, t.id) ELSE IsExecution(t)
         /\ t.status = "pending"
         /\ t.dispatchedAt = 0 }

C34_Original ==
  \A i, j \in 1..Len(state.approvals) :
    i # j => state.approvals[i].id # state.approvals[j].id

\* C35: whenever the phase is completed, every execution task in pendingTasks
\* has status completed: none is failed or still pending, over any sequence
\* of intents, replan or add_feature followed by the approval of a later plan
\* included.
C35_Original ==
  state.phase = "completed"
    => \A k \in 1..Len(state.pendingTasks) :
         IsExecution(state.pendingTasks[k]) => state.pendingTasks[k].status = "completed"

\* C36: whenever the phase is planning, at least one planning task in
\* pendingTasks is outstanding (status pending with dispatchedAt set), also
\* after a planning result that contains neither questions nor a plan.
C36_Original ==
  state.phase = "planning"
    => \E k \in 1..Len(state.pendingTasks) :
         /\ state.pendingTasks[k].type = "planning"
         /\ state.pendingTasks[k].status = "pending"
         /\ state.pendingTasks[k].dispatchedAt # 0

\* C37: a waiting phase always has the item it waits for: phase
\* awaiting_approval implies an approval of type plan, phase
\* awaiting_execution_approval implies an approval of type execution_start or
\* execution_retry, and phase awaiting_clarification implies a clarification
\* record with status open.
C37_WaitingPhaseHasItem ==
  /\ state.phase = "awaiting_approval"
       => \E k \in 1..Len(state.approvals) : state.approvals[k].type = "plan"
  /\ state.phase = "awaiting_execution_approval"
       => \E k \in 1..Len(state.approvals) : IsExecutionApproval(state.approvals[k])
  /\ state.phase = "awaiting_clarification"
       => \E k \in 1..Len(state.clarifications) : state.clarifications[k].status = "open"

\* the lifecycle has waited for a plan approval and for an execution
\* approval, and now waits for the answer to an open clarification while the
\* execution approval is still there
C37_Witness ==
  /\ state.phase = "awaiting_clarification"
  /\ LastOf(state.clarifications).status = "open"
  /\ \E k \in 1..Len(state.history) : state.history[k].to = "awaiting_approval"
  /\ \E k \in 1..Len(state.history) : state.history[k].to = "awaiting_execution_approval"
  /\ \E k \in 1..Len(state.approvals) : state.approvals[k].type = "execution_start"

\* C38: a terminal task status is stable against later results: once a task
\* has status completed, an agent_result for the same taskId, with either
\* status, changes neither its status nor the project phase; and only
\* retry_tasks moves a failed execution task back to pending.
C38_Original ==
  [][ /\ ( /\ intent'.type = "agent_result"
           /\ HasTask(state.pendingTasks, intent'.taskId)
           /\ FindTask(state.pendingTasks, intent'.taskId).status = "completed" )
         => /\ FindTask(state'.pendingTasks, intent'.taskId).status = "completed"
            /\ state'.phase = state.phase
      /\ \A k \in 1..Len(state.pendingTasks) :
           ( /\ IsExecution(state.pendingTasks[k])
             /\ state.pendingTasks[k].status = "failed"
             /\ HasTask(state'.pendingTasks, state.pendingTasks[k].id)
             /\ FindTask(state'.pendingTasks, state.pendingTasks[k].id).status = "pending" )
           => intent'.type = "retry_tasks" ]_vars

\* a retry_tasks has just been accepted in phase error
RetryAccepted ==
  /\ intent.type = "retry_tasks"
  /\ Len(state.history) > 0
  /\ LastOf(state.history).intentType = "retry_tasks"
  /\ LastOf(state.history).from = "error"
  /\ LastOf(state.history).timestamp = clock

\* no execution task is pending and the phase is completed or error
RetrySettled ==
  /\ state.phase \in {"completed", "error"}
  /\ \A k \in 1..Len(state.pendingTasks) :
       IsExecution(state.pendingTasks[k]) => state.pendingTasks[k].status # "pending"

\* C39: recovery by retry makes progress: from phase error with failed
\* execution tasks, after retry_tasks (followed by approve_execution when
\* requireRetryApproval is true), if every emitted dispatch_agent_task effect
\* is eventually answered by an agent_result, every retried task eventually
\* leaves status pending and the phase eventually becomes completed or error
\* rather than staying executing forever.
C39_Original == RetryAccepted ~> RetrySettled

\* C40: the context supplied to create_project is kept: after create_project
\* with a context the new state's context equals the payload's context, and
\* the input of the planning task synthesized with it carries that context.
C40_Original ==
  [][ ( /\ intent'.type = "create_project"
        /\ "context" \in DOMAIN intent'
        /\ intent'.context # NoContext )
      => /\ state'.context = intent'.context
         /\ \A k \in 1..Len(state'.pendingTasks) :
              state'.pendingTasks[k].type = "planning"
                => /\ "context" \in DOMAIN state'.pendingTasks[k]
                   /\ state'.pendingTasks[k].context = intent'.context ]_vars
====
